---- MODULE Spec2Model ----
(***************************************************************************)
(* Knowledge memory engine of DynamicAgent: the property-graph store       *)
(* (NodeManager, RelationshipManager), knowledge transfer                  *)
(* (KnowledgeImportExport), the embedding cache and similarity ranking     *)
(* (EmbeddingManager), the community organizer (CommunityManager) and the  *)
(* retrying query executor (QueryExecutor).                                *)
(*                                                                         *)
(* Python dicts are functions whose DOMAIN is the set of keys present.     *)
(* Every property value is a string token; the token's Python type (str,   *)
(* int, list, dict, ...) is given by PyType, as isinstance decides it in    *)
(* the code.                                                                *)
(***************************************************************************)
EXTENDS Integers, Sequences, FiniteSets, TLC

VARIABLES
    nodes,      \* the graph database's nodes: records [label, props]
    rels,       \* the graph database's relationships
    file,       \* the file export_knowledge writes: [exists, items]
    fileFresh,  \* TRUE while `file` is the export of the current `nodes`
    dest,       \* the nodes of a second, initially empty store (import target)
    last,       \* the last completed call: operation, case, outcome, result
    cache,      \* EmbeddingManager.cache: text -> vector
    disk,       \* the pickled cache file: text -> vector
    run,        \* per text, the encode calls since its entry was last missing
    enc,        \* the last completed call of the EmbeddingManager
    sim,        \* a find_most_similar call: its arguments and its result
    graph,      \* CommunityManager.graph: the node ids, in insertion order
    communities,            \* CommunityManager.communities: node id -> number
    community_summaries,    \* CommunityManager.community_summaries, in
                            \* insertion order: <<community number, summary>>
    seen,       \* per selecting method and query, whether it was called
                \* never, once or again and the selections it made, since
                \* graph, communities or summaries last changed
    comm,       \* the last completed call of the CommunityManager
    exec,       \* QueryExecutor.execute_query under its retry decorator:
                \* the call in progress or the last one completed
    procs,      \* concurrent callers of add_or_update_node: each one's
                \* position in the method and its local variables
    comparison, \* the last compare_knowledge_graphs / merge_knowledge_graphs
                \* call: the other snapshot and the four lists returned
    wire,       \* per GraphStore operation, the query texts it has passed to
                \* execute_query
    gen,        \* ChatGPT.chat_with_ollama under its retry decorator: the
                \* generation request in progress or the last one completed
    co          \* the coroutines that run CommunityManager methods on one
                \* event loop: each one's method, the await it is suspended
                \* at and its loop variable

storeVars == <<nodes, rels, file, fileFresh, dest, last>>
embeddingVars == <<cache, disk, run, enc>>
communityVars == <<graph, communities, community_summaries, seen, comm>>
traceVars == <<wire, gen, co>>
callVars == <<exec, procs, comparison, traceVars>>
vars == <<nodes, rels, file, fileFresh, dest, last, cache, disk, run, enc, sim,
          graph, communities, community_summaries, seen, comm,
          exec, procs, comparison, wire, gen, co>>

----------------------------------------------------------------------------
(* Bounds of the model *)

\* most nodes a store holds (also the number of uuids uuid4 may hand out)
MaxNodes == 2
\* most relationships the store holds
MaxRels == 1

----------------------------------------------------------------------------
(* Values *)

Absent == "<absent>"            \* marks a key left out of a dict literal
DictVal == "{dict}"             \* a Python dict given as a property value
StrValues == {"gravity", "attraction", "a", "b", "u1", "u2", "u3", "u4", "u5",
              "u6", "r1", "r2", "r3", "r4", "'{dict}'", "Task", "Concept"}

NoneVal == "None"               \* Python's None given as a property value

\* the list values of the model, each with its items in order
ListItems ==
    [x \in {"[]", "[1, 2]", "['a', 'b']", "[1, 'a']", "[[1]]", "[{dict}]",
            "[None]"} |->
        CASE x = "[]" -> <<>>
          [] x = "[1, 2]" -> <<"1", "2">>
          [] x = "['a', 'b']" -> <<"a", "b">>
          [] x = "[1, 'a']" -> <<"1", "a">>
          [] x = "[[1]]" -> <<"[1]">>
          [] x = "[{dict}]" -> <<DictVal>>
          [] x = "[None]" -> <<NoneVal>>]

\* type(value).__name__; every token not listed is a str
PyType(value) ==
    CASE value = DictVal -> "dict"
      [] value = NoneVal -> "NoneType"
      [] value \in DOMAIN ListItems \cup {"[1]"} -> "list"
      [] value \in {"1", "2"} -> "int"
      [] value = "1.5" -> "float"
      [] value = "True" -> "bool"
      [] OTHER -> "str"

\* isinstance(value, (str, int, float, bool))
IsPrimitive(value) == PyType(value) \in {"str", "int", "float", "bool"}

\* the negation of the condition of node_manager.py:17: a str, int, float or
\* bool, or a list whose every item is one
IsStorable(value) ==
    \/ IsPrimitive(value)
    \/ /\ PyType(value) = "list"
       /\ \A i \in DOMAIN ListItems[value] : IsPrimitive(ListItems[value][i])

\* json.dumps(value) of the values line 17 selects
JsonDumps(value) ==
    CASE value = DictVal -> "'{dict}'"
      [] value = NoneVal -> "'null'"
      [] value = "[[1]]" -> "'[[1]]'"
      [] value = "[{dict}]" -> "'[{dict}]'"
      [] value = "[None]" -> "'[null]'"
      [] value = "[1, 'a']" -> "'[1, \"a\"]'"
      [] OTHER -> value

Labels == {"Concept", "Task"}
CallerIds == {"a"}
\* the ids uuid4 hands out to nodes and to relationships
NodeUuidPool == <<"u1", "u2", "u3", "u4", "u5", "u6">>
RelUuidPool == <<"r1", "r2", "r3", "r4">>
Uuids == {NodeUuidPool[i] : i \in DOMAIN NodeUuidPool}
Names == {"gravity"}
Descriptions == {"attraction", DictVal}
Strategies == {"update", "skip_existing", "merge"}

EmptyDict == [k \in {} |-> ""]

\* the dict literal holding the keys of r that are not Absent
Dict(r) == [k \in {x \in DOMAIN r : r[x] # Absent} |-> r[k]]

\* d.get(k)
Get(d, k) == IF k \in DOMAIN d THEN d[k] ELSE Absent

\* d[k] = v
Put(d, k, v) == [x \in DOMAIN d \cup {k} |-> IF x = k THEN v ELSE d[x]]

\* d without key k (dict.pop)
Pop(d, k) == [x \in DOMAIN d \ {k} |-> d[x]]

\* SET n = e in place of SET n += e: the keys of d are dropped
PlusEqualsReplacing(d, e) == e

\* SET n += e : keys of e overwrite, other keys of d are kept
PlusEquals(d, e) ==
    [x \in DOMAIN d \cup DOMAIN e |-> IF x \in DOMAIN e THEN e[x] ELSE d[x]]

----------------------------------------------------------------------------
(* NodeManager *)

IdsOf(store) == {n.props["id"] : n \in {m \in store : "id" \in DOMAIN m.props}}

\* str(uuid.uuid4()): an id of the pool that nothing carries yet ("" when the
\* first n ids of the pool are used up; the actions are guarded against that)
Uuid4(pool, n, used) ==
    LET free == {i \in 1..n : pool[i] \notin used}
    IN IF free = {} THEN ""
       ELSE pool[CHOOSE i \in free : \A j \in free : i <= j]

NodeUuid(used) == Uuid4(NodeUuidPool, Len(NodeUuidPool), used)
RelUuid(used) == Uuid4(RelUuidPool, MaxRels, used)

\* node_manager.py:13-18: the properties as sent to the database
PreparedProperties(properties, used) ==
    LET node_id == IF "id" \in DOMAIN properties THEN properties["id"]
                   ELSE NodeUuid(used)
        withId == Put(properties, "id", node_id)
    IN [k \in DOMAIN withId |->
            IF IsStorable(withId[k]) THEN withId[k] ELSE JsonDumps(withId[k])]

\* MERGE (n:label): every node of the label matches, whatever its id
MatchedAnyId(store, label, id) == {n \in store : n.label = label}

\* the nodes MERGE (n:label {id: $id}) matches
Matched(store, label, id) ==
    {n \in store : n.label = label /\ Get(n.props, "id") = id}

\* MERGE (n:label {id: $id}) SET n += $properties
MergeSet(store, label, props) ==
    LET matched == Matched(store, label, props["id"])
    IN IF matched = {}
       THEN store \cup {[label |-> label,
                         props |-> PlusEquals([id |-> props["id"]], props)]}
       ELSE (store \ matched) \cup
            {[label |-> n.label, props |-> PlusEquals(n.props, props)] :
                n \in matched}

\* RETURN n ... result[0]['n'] if result else None
ReturnedNode(store, label, id) ==
    LET matched == Matched(store, label, id)
    IN IF matched = {} THEN EmptyDict ELSE (CHOOSE n \in matched : TRUE).props

\* MATCH (n:label {id: $id}) RETURN n (get_node); the empty dict stands for
\* None: both are false to `if not existing_node`
GetNode(store, label, id) ==
    LET matched == Matched(store, label, id)
    IN IF matched = {} THEN EmptyDict ELSE (CHOOSE n \in matched : TRUE).props

\* MATCH (n:label) RETURN n (get_all_nodes); the label is interpolated into
\* the query text, so a None argument reads as the label "None"
GetAllNodes(store, label) == {n.props : n \in {m \in store : m.label = label}}


\* add_or_update_node(label, properties) on a store, given the ids in use
Upsert(store, label, properties, used) ==
    MergeSet(store, label, PreparedProperties(properties, used))

----------------------------------------------------------------------------
(* RelationshipManager *)

RelIds == {r.id : r \in rels}

NodeRef(n) == [label |-> n.label, id |-> n.props["id"]]

\* MATCH (a {id: $start_node_id}) : any label
MatchById(store, id) == {n \in store : Get(n.props, "id") = id}

\* OPTIONAL MATCH of the end node in place of MATCH: the relationship is
\* created from every start node even when no end node has the id
CreatedRelationshipsOptionalEnd(store, start_node_id, end_node_id, relationship_type, relationship_id) ==
    {[id |-> relationship_id, type |-> relationship_type,
      start |-> NodeRef(a), end |-> [label |-> "Concept", id |-> end_node_id]] :
        a \in MatchById(store, start_node_id)}

\* MATCH (a {id: $start}) MATCH (b {id: $end}) CREATE (a)-[r:type $props]->(b):
\* one relationship per matched pair, none when either MATCH finds nothing
CreatedRelationships(store, start_node_id, end_node_id, relationship_type, relationship_id) ==
    {[id |-> relationship_id, type |-> relationship_type,
      start |-> NodeRef(a), end |-> NodeRef(b)] :
        a \in MatchById(store, start_node_id),
        b \in MatchById(store, end_node_id)}

----------------------------------------------------------------------------
(* KnowledgeImportExport *)

NoFile == [exists |-> FALSE, items |-> <<>>]

\* the orders in which the database may return the rows of a set
RowOrders(S) ==
    {q \in [1..Cardinality(S) -> S] : \A i, j \in 1..Cardinality(S) :
                                            q[i] = q[j] => i = j}

\* knowledge_import_export.py:19-23: a JSON-representable value is kept, any
\* other value is written as str(value)
SerializableValue(value) ==
    IF value \in StrValues \/ value = DictVal THEN value ELSE "str(value)"

SerializableItem(item) == [k \in DOMAIN item |-> SerializableValue(item[k])]

\* item.pop('label', 'Concept')
PoppedLabel(item) == IF "label" \in DOMAIN item THEN item["label"] ELSE "Concept"

\* _merge_nodes
MergeNodes(existing_node, new_node) ==
    [k \in DOMAIN existing_node \cup DOMAIN new_node |->
        IF k \in DOMAIN new_node
           /\ (k \notin DOMAIN existing_node \/ existing_node[k] # new_node[k])
        THEN new_node[k] ELSE existing_node[k]]

Done(store) == [store |-> store, status |-> "ok"]
Raised(store, error) == [store |-> store, status |-> error]

\* _import_node, merge_strategy == 'update'
ImportUpdate(store, label, item) ==
    Done(Upsert(store, label, item, IdsOf(store)))

\* skip_existing without the get_node test: every record is upserted
ImportSkipExistingUnchecked(store, label, item) ==
    Done(Upsert(store, label, item, IdsOf(store)))

\* _import_node, merge_strategy == 'skip_existing'
ImportSkipExisting(store, label, item) ==
    IF "id" \notin DOMAIN item THEN Raised(store, "KeyError")
    ELSE IF GetNode(store, label, item["id"]) = EmptyDict
         THEN Done(Upsert(store, label, item, IdsOf(store)))
         ELSE Done(store)

\* _import_node, merge_strategy == 'merge'
ImportMerge(store, label, item) ==
    IF "id" \notin DOMAIN item THEN Raised(store, "KeyError")
    ELSE LET existing_node == GetNode(store, label, item["id"])
         IN IF existing_node # EmptyDict
            THEN Done(Upsert(store, label, MergeNodes(existing_node, item),
                             IdsOf(store)))
            ELSE Done(Upsert(store, label, item, IdsOf(store)))

ImportNode(store, label, item, merge_strategy) ==
    CASE merge_strategy = "update" -> ImportUpdate(store, label, item)
      [] merge_strategy = "skip_existing" -> ImportSkipExisting(store, label, item)
      [] merge_strategy = "merge" -> ImportMerge(store, label, item)
      [] OTHER -> Done(store)

\* the loop over imported_data["nodes"]; the query of item failAt raises
\* (failAt = 0: no query raises; the actions let the last item's query raise)
RECURSIVE ImportNodes(_, _, _, _, _)
ImportNodes(store, items, merge_strategy, i, failAt) ==
    IF i > Len(items) THEN Done(store)
    ELSE IF i = failAt THEN Raised(store, "StorageError")
    ELSE LET r == ImportNode(store, PoppedLabel(items[i]),
                             Pop(items[i], "label"), merge_strategy)
         IN IF r.status # "ok" THEN r
            ELSE ImportNodes(r.store, items, merge_strategy, i + 1, failAt)

\* import_knowledge_subset: the nodes, then the relationships; the class has
\* no relationship_manager attribute, so the first relationship raises
ImportSubset(store, bundle, merge_strategy, failAt) ==
    LET r == ImportNodes(store, bundle.nodes, merge_strategy, 1, failAt)
    IN IF r.status = "ok" /\ bundle.relationships # <<>>
       THEN Raised(r.store, "AttributeError") ELSE r

\* the loop of import_knowledge: every item is upserted
ImportAll(store, items, failAt) == ImportNodes(store, items, "update", 1, failAt)

----------------------------------------------------------------------------
(* The record of the last completed call: which operation ran, for an import
   its merge strategy and the ids its bundle carries, which of the
   operation's cases applied to the state it found, how it ended ("returned"
   or "raised") and what it returned *)

Call(op, case, outcome, ret) ==
    [op |-> op, strategy |-> Absent, ids |-> {}, case |-> case,
     outcome |-> outcome, ret |-> ret]

NoCall == Call("none", "none", "none", EmptyDict)

----------------------------------------------------------------------------
(* Inputs *)

\* every call names the node; the id and the description are optional
InputProperties ==
    {Dict([id |-> i, name |-> n, description |-> d]) :
        i \in CallerIds \cup {Absent}, n \in Names,
        d \in Descriptions \cup {Absent}}

\* the records of an imported bundle: a description, no name, and
\* optionally an id and a label
BundleItems ==
    {Dict([id |-> i, label |-> l, description |-> "attraction"]) :
        i \in CallerIds \cup {Absent}, l \in {"Task", Absent}}

BundleRelationship ==
    [start_node |-> "a", end_node |-> "a", type |-> "RELATES_TO"]

\* bundles of up to two records without relationships, and of up to one
\* record with a relationship
Bundles ==
    {[nodes |-> n, relationships |-> <<>>] :
        n \in {<<>>} \cup {<<x>> : x \in BundleItems}
              \cup {<<x, y>> : x \in BundleItems, y \in BundleItems}}
    \cup {[nodes |-> n, relationships |-> <<BundleRelationship>>] :
            n \in {<<>>} \cup {<<x>> : x \in BundleItems}}

\* the ids the records of a bundle carry
BundleIds(bundle) ==
    {bundle.nodes[i]["id"] :
        i \in {j \in 1..Len(bundle.nodes) : "id" \in DOMAIN bundle.nodes[j]}}

RelationshipTypes == {"RELATES_TO"}
\* "zz" is the id of no node
EndpointIds == {"a", "u1", "zz"}

----------------------------------------------------------------------------
(* The components as constructed *)

\* EmbeddingManager.encode calls of a text since its cache entry was last
\* missing: how many returned, how many of them computed the embedding with
\* the model, and the vectors they returned (counts stop at MaxCount)
NoRun == [returned |-> 0, computed |-> 0, rets |-> {}]

NoEnc == [op |-> "none", text |-> Absent, ret |-> <<>>]

NoSim == [query |-> <<>>, embeddings |-> <<>>, k |-> 0, metric |-> "none",
          outcome |-> "none", top_k |-> <<>>]

\* a call of the CommunityManager: its query and the communities it
\* selected, the generation calls it made of the text-generation service, in
\* order, the id of the node it added and the communities whose summary it
\* wrote
CommCall(op, outcome, answer) ==
    [op |-> op, outcome |-> outcome, answer |-> answer, query |-> Absent,
     selected |-> <<>>, calls |-> <<>>, node |-> Absent, summarized |-> {}]

NoComm == CommCall("none", "none", Absent)

\* the texts given to the EmbeddingManager's own operations
Texts == {"apple", "node_a"}
\* the queries and the summaries of the CommunityManager
Queries == {"q1"}
SummaryTexts == {"s1", "s2"}
\* the methods that select communities for a query
Methods == {"query_communities", "get_relevant_communities"}

\* the store before any call
StoreEmpty ==
    /\ nodes = {}
    /\ rels = {}
    /\ file = NoFile
    /\ fileFresh = FALSE
    /\ dest = {}
    /\ last = NoCall

\* EmbeddingManager.__init__: the cache is what load_cache found on disk
EmbeddingManagerInit(loaded) ==
    /\ cache = loaded
    /\ disk = loaded
    /\ run = [t \in Texts |-> NoRun]
    /\ enc = NoEnc

\* CommunityManager.__init__
CommunityManagerInit ==
    /\ graph = <<>>
    /\ communities = EmptyDict
    /\ community_summaries = <<>>
    /\ seen = [m \in Methods, q \in Queries |->
                    [calls |-> "never", selections |-> {}]]
    /\ comm = NoComm

\* the neo4j errors session.run raises in the model: a lost connection,
\* rejected credentials, a query the server cannot parse
Errors == {"ServiceUnavailable", "AuthError", "CypherSyntaxError"}
\* the errors that no later attempt can cure
PermanentErrors == {"AuthError", "CypherSyntaxError"}
\* the queries given to execute_query and the row lists session.run yields
QueryTexts == {"MATCH", "MERGE"}
RowLists == {"rows_1", "rows_2"}

NoExec == [query |-> Absent, phase |-> "idle", attempt_number |-> 0,
           attempts |-> <<>>, slept |-> <<>>, ret |-> Absent]

\* the threads that call add_or_update_node concurrently
Procs == {"t1", "t2"}
\* pc is the statement the thread is at; fresh says whether line 13 took a
\* uuid4, found whether MERGE matched a node, overlapped whether the other
\* thread was inside the method during this call
NoProc == [pc |-> "idle", label |-> Absent, properties |-> EmptyDict,
           fresh |-> Absent, found |-> Absent, outcome |-> "none",
           overlapped |-> "no"]
NoProcs == [p \in Procs |-> NoProc]

\* the comparison dict of compare_knowledge_graphs as line 143 builds it,
\* with the snapshot it was made against
NoComparison == [other |-> <<>>, only_in_current |-> <<>>,
                 only_in_other |-> <<>>, different |-> <<>>,
                 identical |-> <<>>]

\* the GraphStore operations that build a query
GraphStoreOperations ==
    {"add_or_update_node", "add_relationship", "get_node", "get_all_nodes"}

\* the methods of the CommunityManager that ask for generated text
GenerationRequests ==
    {"generate_summary", "generate_partial_answer", "combine_partial_answers"}
\* what an attempt of chat_with_ollama raises: aiohttp.ClientError (network),
\* Exception (a status other than 200), ValueError (no 'response' key)
GenerationErrors == {"ClientError", "Exception", "ValueError"}

NoGen == [request |-> Absent, phase |-> "idle", attempt_number |-> 0,
          attempts |-> <<>>, slept |-> <<>>, ret |-> Absent]

\* the coroutines of the event loop
Coroutines == {"c1", "c2"}
\* pc is the await the coroutine is suspended at ("upsert", "summary",
\* "partial", "combine") or how it ended; todo holds the communities its
\* loop has still to visit, the one it is working on first; lookup is the
\* result of its last self.communities[node] lookups
NoCoroutine == [op |-> "none", pc |-> "idle", new_knowledge |-> EmptyDict,
                todo |-> <<>>, lookup |-> "none"]

\* no query is running, no thread is inside add_or_update_node, no
\* comparison was made, no query text was sent, no text was asked for, no
\* coroutine was started
CallsIdle ==
    /\ exec = NoExec
    /\ procs = NoProcs
    /\ comparison = NoComparison
    /\ wire = [op \in GraphStoreOperations |-> {}]
    /\ gen = NoGen
    /\ co = [c \in Coroutines |-> NoCoroutine]

----------------------------------------------------------------------------
(* Actions of the store *)

\* NodeManager.add_or_update_node; the query either runs or execute_query
\* raises after its retries, leaving the database as it was
AddOrUpdateNode(label, properties) ==
    /\ "id" \in DOMAIN properties \/ NodeUuid(IdsOf(nodes)) # ""
    /\ \E ok \in BOOLEAN :
        LET sent == PreparedProperties(properties, IdsOf(nodes))
            matched == Matched(nodes, label, sent["id"])
            after == IF ok THEN MergeSet(nodes, label, sent) ELSE nodes
        IN /\ Cardinality(after) <= MaxNodes
           /\ nodes' = after
           /\ last' = Call("add_or_update_node",
                           IF matched = {} THEN "created" ELSE "merged",
                           IF ok THEN "returned" ELSE "raised",
                           IF ok THEN ReturnedNode(after, label, sent["id"])
                           ELSE EmptyDict)
           /\ fileFresh' = (fileFresh /\ after = nodes)
    /\ UNCHANGED <<callVars, rels, file, dest, embeddingVars, sim, communityVars>>

\* RelationshipManager.add_relationship (properties = None)
AddRelationship(start_node_id, end_node_id, relationship_type) ==
    /\ RelUuid(RelIds) # ""
    /\ \E ok \in BOOLEAN :
        LET relationship_id == RelUuid(RelIds)
            created == CreatedRelationships(nodes, start_node_id, end_node_id,
                                            relationship_type, relationship_id)
            after == IF ok THEN rels \cup created ELSE rels
        IN /\ Cardinality(after) <= MaxRels
           /\ rels' = after
           /\ last' = Call("add_relationship",
                           IF created = {} THEN "no_endpoint" ELSE "linked",
                           IF ok THEN "returned" ELSE "raised", EmptyDict)
    /\ UNCHANGED <<callVars, nodes, file, fileFresh, dest, embeddingVars, sim, communityVars>>

\* KnowledgeImportExport.import_knowledge_subset on the store
ImportKnowledgeSubset(bundle, merge_strategy) ==
    /\ \E failAt \in {0, Len(bundle.nodes)} :
        LET r == ImportSubset(nodes, bundle, merge_strategy, failAt)
        IN /\ Cardinality(r.store) <= MaxNodes
           /\ "" \notin IdsOf(r.store)
           /\ nodes' = r.store
           /\ last' = [Call("import_knowledge_subset",
                            IF BundleIds(bundle) \cap IdsOf(nodes) # {}
                            THEN "existing_id" ELSE "new_ids",
                            IF r.status = "ok" THEN "returned" ELSE "raised",
                            EmptyDict)
                       EXCEPT !.strategy = merge_strategy,
                              !.ids = BundleIds(bundle)]
           /\ fileFresh' = (fileFresh /\ r.store = nodes)
    /\ UNCHANGED <<callVars, rels, file, dest, embeddingVars, sim, communityVars>>

\* KnowledgeImportExport.export_knowledge: get_all_nodes(None), then the file
ExportKnowledge ==
    /\ \E ok \in BOOLEAN :
        IF ok
        THEN /\ \E all_knowledge \in RowOrders(GetAllNodes(nodes, "None")) :
                    file' = [exists |-> TRUE,
                             items |-> [i \in DOMAIN all_knowledge |->
                                          SerializableItem(all_knowledge[i])]]
             /\ fileFresh' = TRUE
             /\ last' = Call("export_knowledge", "none", "returned", EmptyDict)
        ELSE /\ UNCHANGED <<file, fileFresh>>
             /\ last' = Call("export_knowledge", "none", "raised", EmptyDict)
    /\ UNCHANGED <<callVars, nodes, rels, dest, embeddingVars, sim, communityVars>>

\* KnowledgeImportExport.import_knowledge of the second store
ImportKnowledge ==
    /\ IF ~file.exists
       THEN /\ UNCHANGED dest
            /\ last' = Call("import_knowledge", "file_not_found", "returned",
                            EmptyDict)
       ELSE \E failAt \in {0, Len(file.items)} :
            LET r == ImportAll(dest, file.items, failAt)
            IN /\ Cardinality(r.store) <= MaxNodes
               /\ "" \notin IdsOf(r.store)
               /\ dest' = r.store
               /\ last' = Call("import_knowledge",
                               IF dest = {} /\ fileFresh THEN "round_trip"
                               ELSE "import",
                               IF r.status = "ok" THEN "returned" ELSE "raised",
                               EmptyDict)
    /\ UNCHANGED <<callVars, nodes, rels, file, fileFresh, embeddingVars, sim, communityVars>>

InitStore ==
    /\ StoreEmpty
    /\ EmbeddingManagerInit(EmptyDict)
    /\ sim = NoSim
    /\ CommunityManagerInit
    /\ CallsIdle

NextStore ==
    \/ \E label \in Labels, properties \in InputProperties :
            AddOrUpdateNode(label, properties)
    \/ \E s \in EndpointIds, e \in EndpointIds, t \in RelationshipTypes :
            AddRelationship(s, e, t)

SpecStore == InitStore /\ [][NextStore]_vars

NextTransfer ==
    \/ \E label \in Labels, properties \in InputProperties :
            AddOrUpdateNode(label, properties)
    \/ \E bundle \in Bundles, merge_strategy \in Strategies :
            ImportKnowledgeSubset(bundle, merge_strategy)
    \/ ExportKnowledge
    \/ ImportKnowledge

SpecTransfer == InitStore /\ [][NextTransfer]_vars

\* import_knowledge_subset on a store that add_or_update_node fills, the
\* export file and the second store left aside
NextImportSubset ==
    \/ \E label \in Labels, properties \in InputProperties :
            AddOrUpdateNode(label, properties)
    \/ \E bundle \in Bundles, merge_strategy \in Strategies :
            ImportKnowledgeSubset(bundle, merge_strategy)

SpecImportSubset == InitStore /\ [][NextImportSubset]_vars

----------------------------------------------------------------------------
(* Claims about the store *)

\* C1: after add_or_update_node calls that all carry the name N and no
\* caller-chosen id, the store holds exactly one node of label L named N: so
\* among the nodes whose id uuid4 generated, no two share a label and a name.
C1_IdempotentUpsert ==
    \A L \in Labels, N \in Names :
        Cardinality({n \in nodes : /\ n.label = L
                                   /\ Get(n.props, "name") = N
                                   /\ n.props["id"] \in Uuids}) <= 1

\* C2: add_relationship with a start or end id that matches no node changes
\* neither the nodes nor the relationships, and in every state both endpoints
\* of every stored relationship are stored nodes.
C2_NoPartialRelationship ==
    /\ [](\A r \in rels : \E a, b \in nodes :
                NodeRef(a) = r.start /\ NodeRef(b) = r.end)
    /\ [][last'.op = "add_relationship" =>
            \A s \in EndpointIds, e \in EndpointIds, t \in RelationshipTypes :
                (/\ AddRelationship(s, e, t)
                 /\ (MatchById(nodes, s) = {} \/ MatchById(nodes, e) = {}))
                => (nodes' = nodes /\ rels' = rels)]_vars

\* C2 witness: add_relationship has returned after finding an endpoint missing
C2_Witness ==
    /\ last.op = "add_relationship"
    /\ last.case = "no_endpoint"
    /\ last.outcome = "returned"
    /\ nodes # {}

\* C9: when add_or_update_node finds the node (label, id) stored, the stored
\* node afterwards has, for every key of the properties dict (as the call
\* leaves it: lines 14-18 write the id and the JSON strings into the caller's
\* dict), the dict's value and, for every other key, its previous value; the
\* call returns that stored node.
C9_MergeOnMatch ==
    [][\A label \in Labels, properties \in InputProperties :
        (/\ last'.op = "add_or_update_node"
         /\ last'.outcome = "returned"
         /\ "id" \in DOMAIN properties
         /\ Matched(nodes, label, properties["id"]) # {}
         /\ AddOrUpdateNode(label, properties))
        => LET old == GetNode(nodes, label, properties["id"])
               new == GetNode(nodes', label, properties["id"])
               props == PreparedProperties(properties, IdsOf(nodes))
           IN /\ Cardinality(Matched(nodes', label, properties["id"])) = 1
              /\ DOMAIN new = DOMAIN old \cup DOMAIN props
              /\ \A k \in DOMAIN props : new[k] = props[k]
              /\ \A k \in DOMAIN old \ DOMAIN props : new[k] = old[k]
              /\ last'.ret = new]_vars

\* C9 witness: a call has merged into a stored node and returned it, the
\* description being kept or written
C9_Witness ==
    /\ last.op = "add_or_update_node"
    /\ last.case = "merged"
    /\ last.outcome = "returned"
    /\ "description" \in DOMAIN last.ret

\* C10: add_relationship with a start or end id that matches no node ends in
\* a failure reported to the caller, never in a normal return.
C10_MissingEndpointRaises ==
    (last.op = "add_relationship" /\ last.case = "no_endpoint")
        => last.outcome = "raised"

----------------------------------------------------------------------------
(* Claims about knowledge transfer *)

\* C3: import_knowledge_subset with skip_existing leaves every stored node
\* whose id a record of the bundle carries as it was.
C3_SkipExistingFrame ==
    [][(last'.op = "import_knowledge_subset"
            /\ last'.strategy = "skip_existing")
        => \A n \in nodes : n.props["id"] \in last'.ids => n \in nodes']_vars

\* C3 witness: a skip_existing import of a bundle with a stored id has
\* completed
C3_Witness ==
    /\ last.op = "import_knowledge_subset"
    /\ last.strategy = "skip_existing"
    /\ last.case = "existing_id"
    /\ last.outcome = "returned"

\* the last record of the bundle that carries the id
LastRecordWith(bundle, id) ==
    LET at == {i \in 1..Len(bundle.nodes) : Get(bundle.nodes[i], "id") = id}
    IN bundle.nodes[CHOOSE i \in at : \A j \in at : j <= i]

\* C4: after import_knowledge_subset(path, 'update') completes, every stored
\* node whose id a record of the bundle carries holds the imported value (as
\* stored: a JSON string for a dict) of every field of that record.
C4_UpdateOverwrites ==
    [][\A bundle \in Bundles :
        (/\ last'.op = "import_knowledge_subset"
         /\ last'.strategy = "update"
         /\ last'.outcome = "returned"
         /\ ImportKnowledgeSubset(bundle, "update"))
        => \A n \in nodes : n.props["id"] \in BundleIds(bundle) =>
            LET item == Pop(LastRecordWith(bundle, n.props["id"]), "label")
                after == GetNode(nodes', n.label, n.props["id"])
            IN \A k \in DOMAIN item :
                    Get(after, k) = PreparedProperties(item, {})[k]]_vars

\* the (label, properties) pairs of a store, the id left out of the
\* properties of a node that has no name
LabelPropertiesPairs(store) ==
    {[label |-> n.label,
      props |-> IF "name" \in DOMAIN n.props THEN n.props
                ELSE Pop(n.props, "id")] : n \in store}

\* C5: export_knowledge followed by import_knowledge into an empty store
\* yields the (label, properties) pairs of the exported store.
C5_RoundTrip ==
    (last.op = "import_knowledge" /\ last.case = "round_trip"
        /\ last.outcome = "returned")
        => LabelPropertiesPairs(dest) = LabelPropertiesPairs(nodes)

----------------------------------------------------------------------------
(* EmbeddingManager: the cache *)

\* counts of the encode runs stop here
MaxCount == 3

\* the vectors the embedding model may produce (their cosine similarity is
\* 1/sqrt(5), below 0.5)
Vectors == {<<1, 0>>, <<1, 2>>}

\* the caches load_cache may find on disk
LoadableCaches == UNION {[S -> Vectors] : S \in SUBSET Texts}

\* the changed_elements update_graph_embeddings acts on (the "node_" ones)
NodeElements == {"node_a"}

Inc(n) == IF n < MaxCount THEN n + 1 ELSE n

\* encode that computes on every call: the cache is never consulted
EncodeUncached(c, text, embedding) ==
    [cache |-> Put(c, text, embedding), ret |-> embedding, computed |-> TRUE]

\* encode(text) on cache c, the model answering `embedding` when asked: the
\* cache afterwards, the vector returned, and whether the model was asked
EncodeResult(c, text, embedding) ==
    IF text \in DOMAIN c
    THEN [cache |-> c, ret |-> c[text], computed |-> FALSE]
    ELSE [cache |-> Put(c, text, embedding), ret |-> embedding, computed |-> TRUE]

\* the record of the runs after an encode(text) call with result r: a call
\* that computes while no run is recorded starts one, any other call is
\* counted in the run that is recorded
RunAfterEncode(runs, text, r) ==
    IF runs[text].returned = 0 /\ ~r.computed THEN runs
    ELSE [runs EXCEPT ![text] =
            [returned |-> Inc(@.returned),
             computed |-> IF r.computed THEN Inc(@.computed) ELSE @.computed,
             rets |-> @.rets \cup {r.ret}]]

\* the record of the runs once the entries of the texts of S are deleted or
\* rewritten
RunAfterInvalidation(runs, S) ==
    [t \in DOMAIN runs |-> IF t \in S THEN NoRun ELSE runs[t]]

\* an encode whose save is left for later: the cache file is not written
EncodeWriteBehind(text) ==
    /\ \E embedding \in Vectors :
        LET r == EncodeResult(cache, text, embedding)
        IN /\ cache' = r.cache
           /\ disk' = disk
           /\ run' = RunAfterEncode(run, text, r)
           /\ enc' = [op |-> "encode", text |-> text, ret |-> r.ret]
    /\ UNCHANGED <<callVars, storeVars, sim, communityVars>>

\* EmbeddingManager.encode
Encode(text) ==
    /\ \E embedding \in Vectors :
        LET r == EncodeResult(cache, text, embedding)
        IN /\ cache' = r.cache
           /\ disk' = IF r.computed THEN r.cache ELSE disk
           /\ run' = RunAfterEncode(run, text, r)
           /\ enc' = [op |-> "encode", text |-> text, ret |-> r.ret]
    /\ UNCHANGED <<callVars, storeVars, sim, communityVars>>

\* EmbeddingManager.batch_encode: the model computes the texts not cached
BatchEncode(texts) ==
    /\ LET new_texts == {texts[i] : i \in DOMAIN texts} \ DOMAIN cache
       IN \E new_embeddings \in [new_texts -> Vectors] :
            LET after == [t \in DOMAIN cache \cup new_texts |->
                            IF t \in new_texts THEN new_embeddings[t]
                            ELSE cache[t]]
            IN /\ cache' = after
               /\ disk' = IF new_texts # {} THEN after ELSE disk
               /\ enc' = [op |-> "batch_encode", text |-> Absent,
                          ret |-> [i \in DOMAIN texts |-> after[texts[i]]]]
    /\ UNCHANGED <<callVars, run, storeVars, sim, communityVars>>

\* EmbeddingManager.update_embedding: the entry of text is deleted, then
\* encode(new_text) and save_cache; the call's record keeps whether encode
\* asked the model and the vector the model then gave
UpdateEmbedding(text, new_text) ==
    /\ \E embedding \in Vectors :
        LET deleted == IF text \in DOMAIN cache THEN Pop(cache, text) ELSE cache
            r == EncodeResult(deleted, new_text, embedding)
        IN /\ cache' = r.cache
           /\ disk' = r.cache
           /\ run' = RunAfterEncode(RunAfterInvalidation(run, {text}),
                                    new_text, r)
           /\ enc' = [op |-> "update_embedding", text |-> text, ret |-> <<>>,
                      new_text |-> new_text, computed |-> r.computed,
                      embedding |-> IF r.computed THEN embedding ELSE <<>>]
    /\ UNCHANGED <<callVars, storeVars, sim, communityVars>>

\* EmbeddingManager.clear_cache
ClearCache ==
    /\ cache' = EmptyDict
    /\ disk' = EmptyDict
    /\ run' = RunAfterInvalidation(run, Texts)
    /\ enc' = [op |-> "clear_cache", text |-> Absent, ret |-> <<>>]
    /\ UNCHANGED <<callVars, storeVars, sim, communityVars>>

\* EmbeddingManager.update_graph_embeddings(graph, [element]): when the
\* graph given has the node, its text is encoded and the vector is stored
\* under the element's name
UpdateGraphEmbeddings(element, in_graph, node_text) ==
    /\ \E embedding \in Vectors :
        LET r == EncodeResult(cache, node_text, embedding)
            after == IF element \in NodeElements /\ in_graph
                     THEN Put(r.cache, element, r.ret) ELSE cache
        IN /\ cache' = after
           /\ disk' = after
           /\ run' = IF element \in NodeElements /\ in_graph
                     THEN RunAfterInvalidation(
                              RunAfterEncode(run, node_text, r), {element})
                     ELSE run
           /\ enc' = [op |-> "update_graph_embeddings", text |-> element,
                      ret |-> <<>>]
    /\ UNCHANGED <<callVars, storeVars, sim, communityVars>>

InitCache ==
    /\ StoreEmpty
    /\ \E loaded \in LoadableCaches : EmbeddingManagerInit(loaded)
    /\ sim = NoSim
    /\ CommunityManagerInit
    /\ CallsIdle

NextCache ==
    \/ \E text \in Texts : Encode(text)
    \/ \E texts \in {<<>>} \cup {<<t>> : t \in Texts}
                    \cup {<<t, u>> : t \in Texts, u \in Texts} :
            BatchEncode(texts)
    \/ \E text \in Texts, new_text \in Texts : UpdateEmbedding(text, new_text)
    \/ ClearCache
    \/ \E element \in Texts, in_graph \in BOOLEAN, node_text \in Texts :
            UpdateGraphEmbeddings(element, in_graph, node_text)

SpecCache == InitCache /\ [][NextCache]_vars

\* C6: while the cache entry of a text t is not invalidated, the encode(t)
\* calls made since a call found no entry for t have computed the embedding
\* with the model exactly once (in that first call) and have all returned
\* the same vector, the one the cache holds for t.
C6_CacheHitDeterminism ==
    \A t \in Texts :
        run[t].returned > 0 =>
            /\ run[t].computed = 1
            /\ t \in DOMAIN cache
            /\ run[t].rets = {cache[t]}

\* C6 witness: MaxCount encode calls of one text have returned since its
\* entry was missing, and another text is cached with another vector
C6_Witness ==
    \E t \in Texts, u \in Texts :
        /\ run[t].returned = MaxCount
        /\ u \in DOMAIN cache
        /\ cache[u] # cache[t]

----------------------------------------------------------------------------
(* EmbeddingManager: similarity ranking *)

\* most candidates given to find_most_similar
MaxCandidates == 3
\* largest k given to find_most_similar
MaxK == 4

\* the embeddings ranked: nonzero vectors, some parallel, some orthogonal,
\* some of equal and some of different length
SimVectors == {<<1, 0>>, <<0, 1>>, <<1, 1>>, <<-1, 1>>, <<2, 0>>}

Metrics == {"cosine", "euclidean", "manhattan"}

Min(a, b) == IF a <= b THEN a ELSE b

\* np.dot
Dot(embedding1, embedding2) ==
    embedding1[1] * embedding2[1] + embedding1[2] * embedding2[2]

\* embedding1 - embedding2
Minus(embedding1, embedding2) ==
    <<embedding1[1] - embedding2[1], embedding1[2] - embedding2[2]>>

(* A score is a real number x kept exactly as the fraction n/d (d > 0) that
   equals x * |x|: squaring with the sign kept is strictly increasing, so
   scores compare as the floats of the code compare, without square roots. *)

\* x < y for scores
Less(x, y) == x.n * y.d < y.n * x.d

\* np.dot(e1, e2) / (np.linalg.norm(e1) * np.linalg.norm(e2))
CosineSimilarity(embedding1, embedding2) ==
    LET dot == Dot(embedding1, embedding2)
    IN [n |-> IF dot < 0 THEN 0 - dot * dot ELSE dot * dot,
        d |-> Dot(embedding1, embedding1) * Dot(embedding2, embedding2)]

\* np.linalg.norm(embedding1 - embedding2)
EuclideanDistance(embedding1, embedding2) ==
    LET diff == Minus(embedding1, embedding2)
    IN [n |-> Dot(diff, diff), d |-> 1]

\* enumerate(scores): pairs <<index from 0, score>>
Enumerate(scores) == [i \in DOMAIN scores |-> <<i - 1, scores[i]>>]

\* the order of an ascending sort wrongly kept when reverse is asked
BeforeIgnoringReverse(x, y, reverse) == Less(x[2], y[2])

\* x has to come before y in sorted(..., key=lambda x: x[1], reverse=reverse)
Before(x, y, reverse) ==
    IF reverse THEN Less(y[2], x[2]) ELSE Less(x[2], y[2])

\* sorted(items, key=lambda x: x[1], reverse=reverse): a stable sort, items of
\* equal key keep their order whether or not reverse is set
RECURSIVE Sorted(_, _)
Sorted(items, reverse) ==
    IF items = <<>> THEN <<>>
    ELSE LET n == Len(items)
             x == items[n]
             s == Sorted(SubSeq(items, 1, n - 1), reverse)
             later == {i \in DOMAIN s : Before(x, s[i], reverse)}
             p == IF later = {} THEN Len(s) + 1
                  ELSE CHOOSE i \in later : \A j \in later : i <= j
         IN SubSeq(s, 1, p - 1) \o <<x>> \o SubSeq(s, p, Len(s))

\* s[:k] for k >= 0
Slice(s, k) == SubSeq(s, 1, Min(k, Len(s)))

\* find_most_similar for the two metrics it supports
TopK(query_embedding, embeddings, k, metric) ==
    IF metric = "cosine"
    THEN LET similarities == [i \in DOMAIN embeddings |->
                    CosineSimilarity(query_embedding, embeddings[i])]
         IN Slice(Sorted(Enumerate(similarities), TRUE), k)
    ELSE LET distances == [i \in DOMAIN embeddings |->
                    EuclideanDistance(query_embedding, embeddings[i])]
         IN Slice(Sorted(Enumerate(distances), FALSE), k)

\* EmbeddingManager.find_most_similar on the arguments held in sim
FindMostSimilar ==
    /\ sim.outcome = "none"
    /\ sim' = IF sim.metric \in {"cosine", "euclidean"}
              THEN [sim EXCEPT !.outcome = "returned",
                               !.top_k = TopK(sim.query, sim.embeddings,
                                              sim.k, sim.metric)]
              ELSE [sim EXCEPT !.outcome = "raised"]
    /\ UNCHANGED <<callVars, storeVars, embeddingVars, communityVars>>

CandidateLists ==
    UNION {[1..n -> SimVectors] : n \in 0..MaxCandidates}

InitSimilarity ==
    /\ StoreEmpty
    /\ EmbeddingManagerInit(EmptyDict)
    /\ CommunityManagerInit
    /\ CallsIdle
    /\ \E query \in SimVectors, embeddings \in CandidateLists,
          k \in 0..MaxK, metric \in Metrics :
            sim = [query |-> query, embeddings |-> embeddings, k |-> k,
                   metric |-> metric, outcome |-> "none", top_k |-> <<>>]

NextSimilarity == FindMostSimilar

SpecSimilarity == InitSimilarity /\ [][NextSimilarity]_vars

\* the score of candidate i (from 0) of the call held in sim
ScoreOf(i) ==
    IF sim.metric = "cosine"
    THEN CosineSimilarity(sim.query, sim.embeddings[i + 1])
    ELSE EuclideanDistance(sim.query, sim.embeddings[i + 1])

\* score x ranks strictly better than score y under the call's metric
Better(x, y) == IF sim.metric = "cosine" THEN Less(y, x) ELSE Less(x, y)

----------------------------------------------------------------------------
(* CommunityManager *)

\* most nodes of the projection graph
MaxGraph == 4

\* relevant_communities[:3]
TopCommunities == 3

\* the score of the similarity 0.5 (0.5 * 0.5 = 1/4)
Threshold == [n |-> 1, d |-> 4]

\* what the text-generation service may answer to a query
Answers == {"x", "y"}

\* the new_knowledge given to update_knowledge: a new node (no id) or a
\* node that carries the first id handed out
NewKnowledge ==
    {Dict([id |-> i, label |-> "Concept", content |-> "attraction"]) :
        i \in {"u1", Absent}}

Range(s) == {s[i] : i \in DOMAIN s}

\* d[key] = value on a dict kept as the sequence of its items: a key
\* present keeps its place, a new key goes last
SetItem(d, key, value) ==
    IF \E i \in DOMAIN d : d[i][1] = key
    THEN [i \in DOMAIN d |-> IF d[i][1] = key THEN <<key, value>> ELSE d[i]]
    ELSE Append(d, <<key, value>>)

\* graph.add_node(id, ...)
AddNode(g, id) == IF id \in Range(g) THEN g ELSE Append(g, id)

\* the partition of the graph as it was before its newest node was added
PartitionBeforeInsertion(g) ==
    [id \in Range(SubSeq(g, 1, Len(g) - 1)) |->
        (CHOOSE i \in DOMAIN g : g[i] = id) - 1]

\* a partition that leaves out the nodes without an edge
PartitionOfLinkedNodes(g) == [id \in {} |-> 0]

\* community_louvain.best_partition of a graph without edges (no reachable
\* graph has one: only build_graph_from_knowledge adds edges, after the call
\* of line 36 that raises): node number i gets community i
BestPartition(g) ==
    [id \in Range(g) |-> (CHOOSE i \in DOMAIN g : g[i] = id) - 1]

\* a summarize_communities that memoizes: a community that has a summary
\* keeps it, only the communities without one are summarized
SummarizeMissingCommunities(summaries, count, answers, i, failAt) ==
    IF failAt # 0
    THEN [summaries |-> summaries, status |-> "LLMError", written |-> {}]
    ELSE [summaries |-> [j \in 1..(IF Len(summaries) < count THEN count
                                    ELSE Len(summaries)) |->
                            IF j <= Len(summaries) THEN summaries[j]
                            ELSE <<j - 1, answers[j - 1]>>],
          status |-> "ok",
          written |-> Len(summaries)..(count - 1)]

\* summarize_communities: the communities in ascending order, each summary
\* an answer of the text-generation service; the call number failAt raises
\* (failAt = 0: none does) and leaves the summaries written so far
RECURSIVE SummarizeCommunities(_, _, _, _, _)
SummarizeCommunities(summaries, count, answers, i, failAt) ==
    IF i > count
    THEN [summaries |-> summaries, status |-> "ok", written |-> 0..(i - 2)]
    ELSE IF i = failAt
    THEN [summaries |-> summaries, status |-> "LLMError",
          written |-> 0..(i - 2)]
    ELSE SummarizeCommunities(SetItem(summaries, i - 1, answers[i - 1]),
                              count, answers, i + 1, failAt)

NoneSeen ==
    [m \in Methods, q \in Queries |-> [calls |-> "never", selections |-> {}]]

\* embedding_manager.encode(text) as the organizer uses it: the cached vector,
\* or the model's (fresh[text]) when the text is not cached
Embedding(c, fresh, text) == IF text \in DOMAIN c THEN c[text] ELSE fresh[text]

\* encode that returns the model's vector without writing it to the cache
CacheNotWritten(c, fresh, texts) == c

\* the cache after the texts were encoded: every vector the model computed
\* is written
CacheAfter(c, fresh, texts) ==
    [t \in DOMAIN c \cup texts |-> IF t \in DOMAIN c THEN c[t] ELSE fresh[t]]

\* the texts a selection encodes: the query and every summary
EncodedTexts(query) ==
    {query} \cup {community_summaries[i][2] : i \in DOMAIN community_summaries}

\* lines 87-103 (thresholded) and 260-272 (not thresholded): the communities
\* chosen for the query, best first
SelectCommunities(query, thresholded, c, fresh) ==
    LET query_embedding == Embedding(c, fresh, query)
        scored == [i \in DOMAIN community_summaries |->
                    <<community_summaries[i][1],
                      CosineSimilarity(query_embedding,
                          Embedding(c, fresh, community_summaries[i][2]))>>]
        above(p) == Less(Threshold, p[2])
        relevant_communities == IF thresholded THEN SelectSeq(scored, above)
                                ELSE scored
        top == Slice(Sorted(relevant_communities, TRUE), TopCommunities)
    IN [i \in DOMAIN top |-> top[i][1]]

SeenAfter(method, query, selection) ==
    [seen EXCEPT ![method, query] =
        [calls |-> IF @.calls = "never" THEN "once" ELSE "again",
         selections |-> @.selections \cup {selection}]]

\* one generation call per community of the selection, one per summary
GenerationCallsPerSummary(selected) ==
    [i \in 1..(Len(community_summaries) + 1) |->
        IF i <= Len(community_summaries) THEN "partial_answer"
        ELSE "combined_answer"]

\* lines 101-118: generate_partial_answer for every selected community, then
\* combine_partial_answers; each calls llm.chat_with_ollama once
GenerationCalls(selected) ==
    [i \in 1..(Len(selected) + 1) |->
        IF i <= Len(selected) THEN "partial_answer" ELSE "combined_answer"]

\* CommunityManager.query_communities: the selection, then the partial
\* answers and the combined answer of the text-generation service; the
\* generation call number failAt raises (failAt = 0: none does) and ends
\* the call
QueryCommunities(query) ==
    /\ \E fresh \in [EncodedTexts(query) \ DOMAIN cache -> Vectors] :
        LET after == CacheAfter(cache, fresh, EncodedTexts(query))
            selected == SelectCommunities(query, TRUE, cache, fresh)
            calls == GenerationCalls(selected)
        IN \E failAt \in {0, 1, Len(calls)} :
           \E answer \in IF failAt = 0 THEN Answers ELSE {Absent} :
           /\ cache' = after
           /\ disk' = IF after # cache THEN after ELSE disk
           /\ seen' = SeenAfter("query_communities", query, selected)
           /\ comm' = [CommCall("query_communities",
                                IF failAt = 0 THEN "returned" ELSE "raised",
                                answer)
                       EXCEPT !.query = query,
                              !.selected = selected,
                              !.calls = IF failAt = 0 THEN calls
                                        ELSE Slice(calls, failAt)]
    /\ UNCHANGED <<callVars, storeVars, run, enc, sim, graph, communities,
                   community_summaries>>

\* CommunityManager.get_relevant_communities
GetRelevantCommunities(query) ==
    /\ \E fresh \in [EncodedTexts(query) \ DOMAIN cache -> Vectors] :
        LET after == CacheAfter(cache, fresh, EncodedTexts(query))
        IN /\ cache' = after
           /\ disk' = IF after # cache THEN after ELSE disk
           /\ seen' = SeenAfter("get_relevant_communities", query,
                        SelectCommunities(query, FALSE, cache, fresh))
           /\ comm' = CommCall("get_relevant_communities", "returned",
                               Absent)
    /\ UNCHANGED <<callVars, storeVars, run, enc, sim, graph, communities,
                   community_summaries>>

\* CommunityManager.update_knowledge: the node is upserted (or the store
\* raises and nothing else happens), added to the graph, the communities are
\* detected again and every community is summarized again
UpdateKnowledge(new_knowledge) ==
    /\ NodeUuid(IdsOf(nodes)) # ""
    /\ \E ok \in BOOLEAN :
        IF ~ok
        THEN /\ comm' = CommCall("update_knowledge", "raised", Absent)
             /\ UNCHANGED <<nodes, fileFresh, graph, communities,
                            community_summaries, seen>>
        ELSE LET sent == PreparedProperties(new_knowledge, IdsOf(nodes))
                 g == AddNode(graph, sent["id"])
             IN /\ Len(g) <= MaxGraph
                /\ nodes' = MergeSet(nodes, new_knowledge["label"], sent)
                /\ fileFresh' = (fileFresh /\ nodes' = nodes)
                /\ graph' = g
                /\ communities' = BestPartition(g)
                /\ \E failAt \in {0, Len(g)} :
                   \E answers \in [0..(IF failAt = 0 THEN Len(g) - 1
                                       ELSE Len(g) - 2) -> SummaryTexts] :
                    LET r == SummarizeCommunities(community_summaries, Len(g),
                                                  answers, 1, failAt)
                    IN /\ community_summaries' = r.summaries
                       /\ comm' = [CommCall("update_knowledge",
                                            IF r.status = "ok"
                                            THEN "returned" ELSE "raised",
                                            Absent)
                                   EXCEPT !.node = sent["id"],
                                          !.summarized = r.written]
                /\ seen' = IF <<graph', communities', community_summaries'>>
                              = <<graph, communities, community_summaries>>
                           THEN seen ELSE NoneSeen
    /\ UNCHANGED <<callVars, rels, file, dest, last, embeddingVars, sim>>

\* CommunityManager.initialize: build_graph_from_knowledge calls
\* knowledge_graph.get_all_knowledge, which KnowledgeGraph does not define
Initialize ==
    /\ comm' = CommCall("initialize", "raised", Absent)
    /\ UNCHANGED <<callVars, storeVars, embeddingVars, sim, graph, communities,
                   community_summaries, seen>>

InitCommunity ==
    /\ StoreEmpty
    /\ EmbeddingManagerInit(EmptyDict)
    /\ sim = NoSim
    /\ CommunityManagerInit
    /\ CallsIdle

NextCommunity ==
    \/ \E new_knowledge \in NewKnowledge : UpdateKnowledge(new_knowledge)
    \/ \E query \in Queries : QueryCommunities(query)
    \/ \E query \in Queries : GetRelevantCommunities(query)
    \/ Initialize

SpecCommunity == InitCommunity /\ [][NextCommunity]_vars

\* the summary stored for a community
SummaryOf(community_id) ==
    LET i == CHOOSE j \in DOMAIN community_summaries :
                    community_summaries[j][1] = community_id
    IN community_summaries[i][2]

\* the similarity of the query and a community's summary, by the cache
CachedSimilarity(query, community_id) ==
    CosineSimilarity(cache[query], cache[SummaryOf(community_id)])

\* the communities a method ranks: all that have a summary, for
\* query_communities those of similarity above 0.5
Eligible(method, query) ==
    {c \in {community_summaries[i][1] : i \in DOMAIN community_summaries} :
        method = "query_communities" => Less(Threshold, CachedSimilarity(query, c))}

\* C8: the calls of a selecting method with the same query, made since the
\* projection graph, the community assignment or the summaries last changed,
\* have all selected the same sequence of communities, whatever the
\* text-generation service answered: the (up to) three eligible communities
\* of highest cosine similarity to the query, best first, by the vectors the
\* cache holds for the query and the summaries.
C8_CommunityStability ==
    \A m \in Methods, q \in Queries :
        seen[m, q].calls # "never" =>
            /\ Cardinality(seen[m, q].selections) = 1
            /\ EncodedTexts(q) \subseteq DOMAIN cache
            /\ \A sel \in seen[m, q].selections :
                /\ Len(sel) = Min(TopCommunities, Cardinality(Eligible(m, q)))
                /\ Range(sel) \subseteq Eligible(m, q)
                /\ \A i, j \in DOMAIN sel : sel[i] = sel[j] => i = j
                /\ \A i \in 1..(Len(sel) - 1) :
                        ~Less(CachedSimilarity(q, sel[i]),
                              CachedSimilarity(q, sel[i + 1]))
                /\ \A c \in Eligible(m, q) \ Range(sel) : \A i \in DOMAIN sel :
                        ~Less(CachedSimilarity(q, sel[i]),
                              CachedSimilarity(q, c))

\* C8 witness: both methods were called again with the same query while four
\* communities had summaries; get_relevant_communities chose three of them,
\* query_communities fewer, and the last query was answered
C8_Witness ==
    \E q \in Queries :
        /\ seen["query_communities", q].calls = "again"
        /\ seen["get_relevant_communities", q].calls = "again"
        /\ Len(community_summaries) = 4
        /\ comm.op = "query_communities"
        /\ comm.outcome = "returned"
        /\ \E s \in seen["get_relevant_communities", q].selections,
              t \in seen["query_communities", q].selections :
                Len(s) = TopCommunities /\ Len(t) \in 1..2

----------------------------------------------------------------------------
(* QueryExecutor.execute_query and its retry decorator *)

\* @retry(stop=stop_after_attempt(3),
\*        wait=wait_exponential(multiplier=1, min=4, max=10))
StopAfterAttempt == 3
Multiplier == 1
WaitMin == 4
WaitMax == 10

Max(a, b) == IF a < b THEN b ELSE a

\* stop_after_attempt: never stops
StopNever(attempt_number) == FALSE

\* stop_after_attempt: no attempt follows the attempt of this number
Stop(attempt_number) == attempt_number >= StopAfterAttempt

\* wait_exponential: the seconds slept after the failed attempt of this
\* number, multiplier * 2^(attempt_number - 1) clamped to [min, max]
WaitExponential(attempt_number) ==
    Max(WaitMin, Min(Multiplier * 2 ^ (attempt_number - 1), WaitMax))

\* the retry decorator names no exception type: every exception the wrapped
\* function raises is one to retry on
RetryOn(error) == TRUE

\* a caller calls execute_query(query, parameters): the first attempt begins
ExecuteQuery(query) ==
    /\ exec.phase \in {"idle", "returned", "raised"}
    /\ exec' = [query |-> query, phase |-> "running", attempt_number |-> 1,
                attempts |-> <<>>, slept |-> <<>>, ret |-> Absent]
    /\ UNCHANGED <<traceVars, storeVars, embeddingVars, sim, communityVars,
                   procs, comparison>>

\* session.run yields rows: the attempt returns the list of its records and
\* so does the call
AttemptReturns(rows) ==
    /\ exec.phase = "running"
    /\ exec' = [exec EXCEPT !.phase = "returned",
                            !.attempts = Append(@, rows),
                            !.ret = rows]
    /\ UNCHANGED <<traceVars, storeVars, embeddingVars, sim, communityVars,
                   procs, comparison>>

\* session.run raises: the except clause logs and re-raises; the decorator
\* then either gives up, raising RetryError to the caller, or goes to sleep
AttemptRaises(error) ==
    /\ exec.phase = "running"
    /\ exec' = [exec EXCEPT
            !.phase = IF RetryOn(error) /\ ~Stop(exec.attempt_number)
                      THEN "sleeping" ELSE "raised",
            !.attempts = Append(@, error),
            !.ret = IF RetryOn(error) /\ ~Stop(exec.attempt_number)
                    THEN Absent
                    ELSE IF RetryOn(error) THEN "RetryError" ELSE error]
    /\ UNCHANGED <<traceVars, storeVars, embeddingVars, sim, communityVars,
                   procs, comparison>>

\* the sleep between two attempts ends and the next attempt begins
Sleep ==
    /\ exec.phase = "sleeping"
    /\ exec' = [exec EXCEPT
            !.phase = "running",
            !.slept = Append(@, WaitExponential(exec.attempt_number)),
            !.attempt_number = @ + 1]
    /\ UNCHANGED <<traceVars, storeVars, embeddingVars, sim, communityVars,
                   procs, comparison>>

InitRetry ==
    /\ StoreEmpty
    /\ EmbeddingManagerInit(EmptyDict)
    /\ sim = NoSim
    /\ CommunityManagerInit
    /\ CallsIdle

NextRetry ==
    \/ \E query \in QueryTexts : ExecuteQuery(query)
    \/ \E rows \in RowLists : AttemptReturns(rows)
    \/ \E error \in Errors : AttemptRaises(error)
    \/ Sleep

SpecRetry == InitRetry /\ [][NextRetry]_vars

\* the attempts of the call that failed
Failed(e) == {i \in 1..Len(e.attempts) : e.attempts[i] \in Errors}

\* C11: a query whose attempt fails with a transient connectivity error is
\* attempted again after a backoff wait of 4 to 10 seconds; a call returns
\* the rows of its last attempt, every earlier attempt having failed; no
\* call makes more than 3 attempts; a call raises to its caller exactly when
\* its third attempt failed, and nothing follows but a new call
C11_BoundedRetry ==
    /\ [](/\ exec.attempt_number <= StopAfterAttempt
          /\ Len(exec.attempts) <= StopAfterAttempt
          /\ \A i \in 1..Len(exec.slept) :
                exec.slept[i] >= WaitMin /\ exec.slept[i] <= WaitMax
          /\ exec.phase = "running" =>
                /\ Len(exec.attempts) = exec.attempt_number - 1
                /\ Len(exec.slept) = exec.attempt_number - 1
                /\ Failed(exec) = 1..Len(exec.attempts)
          /\ exec.phase = "returned" =>
                /\ exec.ret = exec.attempts[Len(exec.attempts)]
                /\ exec.ret \in RowLists
                /\ Failed(exec) = 1..(Len(exec.attempts) - 1)
                /\ Len(exec.slept) = Len(exec.attempts) - 1
          /\ exec.phase = "raised" =>
                /\ Len(exec.attempts) = StopAfterAttempt
                /\ Failed(exec) = 1..StopAfterAttempt
                /\ Len(exec.slept) = StopAfterAttempt - 1
                /\ exec.ret = "RetryError")
    /\ [][/\ (/\ exec.phase = "running"
              /\ exec.attempt_number < StopAfterAttempt
              /\ Len(exec'.attempts) > Len(exec.attempts)
              /\ exec'.attempts[Len(exec'.attempts)] = "ServiceUnavailable")
                => exec'.phase = "sleeping"
          /\ exec.phase = "sleeping" =>
                /\ exec'.phase = "running"
                /\ exec'.attempt_number = exec.attempt_number + 1
                /\ Len(exec'.slept) = Len(exec.slept) + 1
          /\ exec.phase \in {"raised", "returned"} =>
                /\ exec'.phase = "running"
                /\ exec'.attempt_number = 1
                /\ exec'.attempts = <<>>]_exec

\* a call that returned the rows of its third attempt after two lost
\* connections
C11_Witness ==
    /\ exec.phase = "returned"
    /\ exec.attempts = <<"ServiceUnavailable", "ServiceUnavailable", exec.ret>>
    /\ exec.slept = <<4, 4>>

\* C12: a query whose first attempt fails with an authentication or other
\* permanent error is attempted once: the call raises at once, without a
\* sleep and without a second attempt
C12_PermanentErrorNotRetried ==
    (/\ Len(exec.attempts) >= 1
     /\ exec.attempts[1] \in PermanentErrors)
        => /\ exec.phase = "raised"
           /\ Len(exec.attempts) = 1
           /\ exec.slept = <<>>

----------------------------------------------------------------------------
(* Read operations of NodeManager and KnowledgeGraph *)

\* LIMIT 5 of get_relevant_knowledge and the default limit of
\* recall_relevant_episodes
KnowledgeLimit == 5
EpisodeLimit == 5

\* the search strings given to the read operations
Contents == {"grav", "attraction"}

\* Cypher's CONTAINS on the strings of the model: "grav" is a substring of
\* "gravity", every string contains itself, and a missing property (null)
\* contains nothing
Contains(value, content) ==
    /\ value # Absent
    /\ \/ value = content
       \/ value = "gravity" /\ content = "grav"

\* MATCH (n) WHERE n.content CONTAINS $content OR n.name CONTAINS $content
RelevantKnowledge(store, content) ==
    {n.props : n \in {m \in store :
        \/ Contains(Get(m.props, "content"), content)
        \/ Contains(Get(m.props, "name"), content)}}

\* MATCH (e:Episode) WHERE e.task CONTAINS $task
RelevantEpisodes(store, task) ==
    {n.props : n \in {m \in store :
        /\ m.label = "Episode"
        /\ Contains(Get(m.props, "task"), task)}}

\* the read operations leave every component as it was
ReadFrame ==
    UNCHANGED <<nodes, rels, file, fileFresh, dest, embeddingVars, sim,
                communityVars, callVars>>

\* NodeManager.get_node: the result of execute_query, or its exception
GetNodeCall(label, node_id) ==
    /\ \E ok \in BOOLEAN :
        last' = IF ok
                THEN Call("get_node", "query_ok", "returned",
                          GetNode(nodes, label, node_id))
                ELSE Call("get_node", "query_failed", "raised", EmptyDict)
    /\ ReadFrame

\* NodeManager.get_all_nodes: the result of execute_query, or its exception
GetAllNodesCall(label) ==
    /\ \E ok \in BOOLEAN :
        IF ok
        THEN \E result \in RowOrders(GetAllNodes(nodes, label)) :
                last' = Call("get_all_nodes", "query_ok", "returned", result)
        ELSE last' = Call("get_all_nodes", "query_failed", "raised",
                          EmptyDict)
    /\ ReadFrame

\* KnowledgeGraph.get_relevant_knowledge: no try around execute_query
GetRelevantKnowledge(content) ==
    /\ \E ok \in BOOLEAN :
        IF ok
        THEN \E result \in RowOrders(RelevantKnowledge(nodes, content)) :
                last' = Call("get_relevant_knowledge", "query_ok", "returned",
                             Slice(result, KnowledgeLimit))
        ELSE last' = Call("get_relevant_knowledge", "query_failed", "raised",
                          EmptyDict)
    /\ ReadFrame

\* KnowledgeGraph.recall_relevant_episodes: the except clause reads
\* self.logging_manager, an attribute KnowledgeGraph never sets, so the
\* handler raises AttributeError before its `return []`
RecallRelevantEpisodes(task) ==
    /\ \E ok \in BOOLEAN :
        IF ok
        THEN \E result \in RowOrders(RelevantEpisodes(nodes, task)) :
                last' = Call("recall_relevant_episodes", "query_ok",
                             "returned", Slice(result, EpisodeLimit))
        ELSE last' = Call("recall_relevant_episodes", "query_failed",
                          "raised", EmptyDict)
    /\ ReadFrame

ReadOperations == {"get_node", "get_all_nodes", "get_relevant_knowledge",
                   "recall_relevant_episodes"}

NextRead ==
    \/ \E label \in Labels, properties \in InputProperties :
            AddOrUpdateNode(label, properties)
    \/ \E label \in Labels, node_id \in EndpointIds : GetNodeCall(label, node_id)
    \/ \E label \in Labels : GetAllNodesCall(label)
    \/ \E content \in Contents : GetRelevantKnowledge(content)
    \/ \E task \in Contents : RecallRelevantEpisodes(task)

SpecRead == InitStore /\ [][NextRead]_vars

\* C13: a read operation (get_relevant_knowledge, recall_relevant_episodes,
\* get_node, get_all_nodes) whose storage query failed returns an empty
\* result to its caller
C13_FailedReadReturnsEmpty ==
    (last.op \in ReadOperations /\ last.case = "query_failed")
        => /\ last.outcome = "returned"
           /\ DOMAIN last.ret = {}

----------------------------------------------------------------------------
(* Import with merge strategy 'merge' *)

\* C14: after import_knowledge_subset(path, 'merge') completes, every stored
\* node whose id a record of the bundle carries holds the imported value of
\* every field of that record and keeps its own value of every other field,
\* and every id of the bundle that no stored node had belongs to a node made
\* of the imported record.
C14_MergeFieldWise ==
    [][\A bundle \in Bundles :
        (/\ last'.op = "import_knowledge_subset"
         /\ last'.strategy = "merge"
         /\ last'.outcome = "returned"
         /\ ImportKnowledgeSubset(bundle, "merge"))
        => /\ \A n \in nodes : n.props["id"] \in BundleIds(bundle) =>
                LET item == Pop(LastRecordWith(bundle, n.props["id"]), "label")
                    after == GetNode(nodes', n.label, n.props["id"])
                IN /\ \A k \in DOMAIN item :
                        Get(after, k) = PreparedProperties(item, {})[k]
                   /\ \A k \in DOMAIN n.props \ DOMAIN item :
                        Get(after, k) = n.props[k]
           /\ \A id \in BundleIds(bundle) \ IdsOf(nodes) :
                \E n \in nodes' :
                    /\ n.props["id"] = id
                    /\ n.props = PreparedProperties(
                            Pop(LastRecordWith(bundle, id), "label"), {})]_vars

----------------------------------------------------------------------------
(* Concurrent callers of NodeManager.add_or_update_node *)

\* the threads inside the method
InFlight == {p \in Procs : procs[p].pc \in {"assign_id", "execute_query"}}

\* the ids no uuid4 will produce again: those stored and those a thread in
\* the method holds
IdsInUse ==
    IdsOf(nodes) \cup {procs[p].properties["id"] :
                        p \in {q \in Procs : procs[q].pc = "execute_query"}}

\* a thread calls add_or_update_node(label, properties)
Enter(p, label, properties) ==
    /\ procs[p].pc \in {"idle", "done"}
    /\ procs' = [q \in Procs |->
            IF q = p
            THEN [pc |-> "assign_id", label |-> label,
                  properties |-> properties, fresh |-> Absent,
                  found |-> Absent, outcome |-> "none",
                  overlapped |-> IF InFlight # {} THEN "yes" ELSE "no"]
            ELSE IF q \in InFlight
                 THEN [procs[q] EXCEPT !.overlapped = "yes"]
                 ELSE procs[q]]
    /\ UNCHANGED <<traceVars, storeVars, embeddingVars, sim, communityVars,
                   exec, comparison>>

\* lines 13-18: the id of the dict or a uuid4, written into the dict, and
\* the values MERGE cannot store replaced by their JSON strings
AssignId(p) ==
    /\ procs[p].pc = "assign_id"
    /\ "id" \in DOMAIN procs[p].properties \/ NodeUuid(IdsInUse) # ""
    /\ procs' = [procs EXCEPT
            ![p].pc = "execute_query",
            ![p].fresh = IF "id" \in DOMAIN procs[p].properties
                         THEN "no" ELSE "yes",
            ![p].properties = PreparedProperties(@, IdsInUse)]
    /\ UNCHANGED <<traceVars, storeVars, embeddingVars, sim, communityVars,
                   exec, comparison>>

\* lines 20-27: the MERGE query runs in the database, or execute_query
\* raises and the database is as it was
ExecuteMerge(p) ==
    /\ procs[p].pc = "execute_query"
    /\ \E ok \in BOOLEAN :
        LET me == procs[p]
            matched == Matched(nodes, me.label, me.properties["id"])
            after == IF ok THEN MergeSet(nodes, me.label, me.properties)
                     ELSE nodes
        IN /\ Cardinality(after) <= MaxNodes
           /\ nodes' = after
           /\ fileFresh' = (fileFresh /\ after = nodes)
           /\ procs' = [procs EXCEPT
                ![p].pc = "done",
                ![p].found = IF ~ok THEN Absent
                             ELSE IF matched = {} THEN "no" ELSE "yes",
                ![p].outcome = IF ok THEN "returned" ELSE "raised"]
    /\ UNCHANGED <<traceVars, rels, file, dest, last, embeddingVars, sim,
                   communityVars, exec, comparison>>

\* the dicts the threads pass: a name, with or without an id
RaceProperties == {d \in InputProperties : "description" \notin DOMAIN d}

NextRace ==
    \/ \E p \in Procs, label \in Labels, properties \in RaceProperties :
            Enter(p, label, properties)
    \/ \E p \in Procs : AssignId(p)
    \/ \E p \in Procs : ExecuteMerge(p)

SpecRace == InitStore /\ [][NextRace]_vars

\* two threads whose calls for the same label and name, neither dict
\* carrying an id, have both returned
SameKeyPair(p, q) ==
    /\ p # q
    /\ procs[p].pc = "done" /\ procs[q].pc = "done"
    /\ procs[p].outcome = "returned" /\ procs[q].outcome = "returned"
    /\ procs[p].fresh = "yes" /\ procs[q].fresh = "yes"
    /\ procs[p].label = procs[q].label
    /\ procs[p].properties["name"] = procs[q].properties["name"]

\* C15: when two add_or_update_node calls for the same (label, name), neither
\* supplying an id, have returned, in whatever order their steps ran, each
\* found no node to merge with and created one: the store holds two nodes
\* with that label and name, one per call.
C15_DuplicateCreation ==
    \A p, q \in Procs : SameKeyPair(p, q) =>
        /\ procs[p].found = "no" /\ procs[q].found = "no"
        /\ procs[p].properties["id"] # procs[q].properties["id"]
        /\ \A r \in {p, q} : \E n \in nodes :
                /\ n.label = procs[r].label
                /\ n.props["id"] = procs[r].properties["id"]
                /\ n.props["name"] = procs[r].properties["name"]

\* both calls were inside the method at the same time
C15_Witness ==
    \E p, q \in Procs :
        /\ SameKeyPair(p, q)
        /\ procs[p].overlapped = "yes" /\ procs[q].overlapped = "yes"
        /\ Cardinality({n \in nodes :
                /\ n.label = procs[p].label
                /\ Get(n.props, "name") = procs[p].properties["name"]}) = 2

----------------------------------------------------------------------------
(* update_knowledge and query_communities, call by call *)

\* the communities that have a summary
Summarized == {community_summaries[i][1] : i \in DOMAIN community_summaries}

\* C16: when update_knowledge(new_node) has returned, the node is in the
\* store under its label and in the projection graph, the community
\* assignment is the partition of the graph that holds the node and gives the
\* node a community, and that community's summary was written by the pass
\* this call ran.
C16_UpdateKnowledgePostState ==
    (comm.op = "update_knowledge" /\ comm.outcome = "returned") =>
        /\ \E n \in nodes : n.props["id"] = comm.node /\ n.label = "Concept"
        /\ comm.node \in Range(graph)
        /\ communities = BestPartition(graph)
        /\ comm.node \in DOMAIN communities
        /\ communities[comm.node] \in comm.summarized
        /\ communities[comm.node] \in Summarized

\* update_knowledge returned for a node that joined a graph of other nodes
C16_Witness ==
    /\ comm.op = "update_knowledge"
    /\ comm.outcome = "returned"
    /\ Len(graph) >= 2
    /\ graph[Len(graph)] = comm.node
    /\ communities[comm.node] = Len(graph) - 1

----------------------------------------------------------------------------
(* KnowledgeImportExport.compare_knowledge_graphs, merge_knowledge_graphs *)

\* the snapshots read from other_graph_file: up to two nodes, each with a
\* label, an id, a name and possibly a description
SnapshotItems ==
    {Dict([id |-> i, label |-> "Concept", name |-> "gravity",
           description |-> d]) :
        i \in {"a", "b"}, d \in {"attraction", Absent}}

Snapshots ==
    {<<>>} \cup {<<x>> : x \in SnapshotItems}
           \cup {<<x, y>> : x \in {z \in SnapshotItems : z["id"] = "a"},
                            y \in {z \in SnapshotItems : z["id"] = "b"}}

MergeStrategies == {"update", "keep_current"}

\* lines 141-153: current_graph is read and the comparison dict is returned
\* as it was built, its four lists empty ("Implement comparison logic here")
CompareKnowledgeGraphs(current_graph, other_graph) ==
    [other |-> other_graph, only_in_current |-> <<>>, only_in_other |-> <<>>,
     different |-> <<>>, identical |-> <<>>]

\* lines 158-163: the nodes merge_knowledge_graphs upserts
NodesToMerge(c, merge_strategy) ==
    CASE merge_strategy = "update" -> c.only_in_other \o c.different
      [] merge_strategy = "keep_current" -> c.only_in_other
      [] OTHER -> <<>>

\* add_or_update_node(node['label'], node) for every node of the list
RECURSIVE UpsertEach(_, _, _)
UpsertEach(store, items, i) ==
    IF i > Len(items) THEN Done(store)
    ELSE IF "label" \notin DOMAIN items[i] THEN Raised(store, "KeyError")
    ELSE UpsertEach(Upsert(store, items[i]["label"], items[i], IdsOf(store)),
                    items, i + 1)

\* compare_knowledge_graphs(other_graph_file): get_all_nodes(None) may raise
CompareGraphs(other_graph) ==
    /\ \E ok \in BOOLEAN :
        IF ok
        THEN \E current_graph \in RowOrders(GetAllNodes(nodes, "None")) :
                /\ comparison' = CompareKnowledgeGraphs(current_graph,
                                                        other_graph)
                /\ last' = Call("compare_knowledge_graphs", "none",
                                "returned", EmptyDict)
        ELSE /\ UNCHANGED comparison
             /\ last' = Call("compare_knowledge_graphs", "none", "raised",
                             EmptyDict)
    /\ UNCHANGED <<traceVars, nodes, rels, file, fileFresh, dest, embeddingVars,
                   sim, communityVars, exec, procs>>

\* merge_knowledge_graphs(other_graph_file, merge_strategy)
MergeKnowledgeGraphs(other_graph, merge_strategy) ==
    /\ \E ok \in BOOLEAN :
        IF ok
        THEN \E current_graph \in RowOrders(GetAllNodes(nodes, "None")) :
                LET c == CompareKnowledgeGraphs(current_graph, other_graph)
                    r == UpsertEach(nodes, NodesToMerge(c, merge_strategy), 1)
                IN /\ Cardinality(r.store) <= MaxNodes
                   /\ comparison' = c
                   /\ nodes' = r.store
                   /\ fileFresh' = (fileFresh /\ r.store = nodes)
                   /\ last' = [Call("merge_knowledge_graphs", "none",
                                    IF r.status = "ok" THEN "returned"
                                    ELSE "raised", EmptyDict)
                               EXCEPT !.strategy = merge_strategy]
        ELSE /\ UNCHANGED <<comparison, nodes, fileFresh>>
             /\ last' = [Call("merge_knowledge_graphs", "none", "raised",
                              EmptyDict)
                         EXCEPT !.strategy = merge_strategy]
    /\ UNCHANGED <<traceVars, rels, file, dest, embeddingVars, sim, communityVars,
                   exec, procs>>

NextCompare ==
    \/ \E label \in Labels, properties \in InputProperties :
            AddOrUpdateNode(label, properties)
    \/ \E other_graph \in Snapshots : CompareGraphs(other_graph)
    \/ \E other_graph \in Snapshots, merge_strategy \in MergeStrategies :
            MergeKnowledgeGraphs(other_graph, merge_strategy)

SpecCompare == InitStore /\ [][NextCompare]_vars

\* the lists of the comparison that hold a node
ListsHolding(node) ==
    {name \in {"only_in_current", "only_in_other", "different", "identical"} :
        \E i \in DOMAIN comparison[name] : comparison[name][i] = node}

\* the node of the snapshot with this id, the label left out
OtherWith(id) ==
    LET i == CHOOSE j \in DOMAIN comparison.other :
                    comparison.other[j]["id"] = id
    IN Pop(comparison.other[i], "label")

OtherIds == {comparison.other[i]["id"] : i \in DOMAIN comparison.other}

\* C18: when compare_knowledge_graphs(other) has returned, every node of the
\* current store and every node of the other snapshot is in exactly one of
\* the four lists: only_in_current or only_in_other when its id is on one
\* side only, different when both sides have the id with differing fields,
\* identical when both have it with equal fields.
C18_CompareClassifies ==
    (last.op = "compare_knowledge_graphs" /\ last.outcome = "returned") =>
        /\ \A n \in nodes :
            ListsHolding(n.props) =
                IF n.props["id"] \notin OtherIds THEN {"only_in_current"}
                ELSE IF OtherWith(n.props["id"]) = n.props THEN {"identical"}
                ELSE {"different"}
        /\ \A i \in DOMAIN comparison.other :
            LET item == comparison.other[i]
            IN item["id"] \notin IdsOf(nodes) =>
                    ListsHolding(item) = {"only_in_other"}

----------------------------------------------------------------------------
(* update_embedding, call by call *)

\* C19: after update_embedding(old_text, new_text) with old_text different
\* from new_text, the cache has no entry for old_text, the model was asked
\* for the embedding of new_text during the call, and the cache's entry for
\* new_text is the vector the model then gave.
C19_UpdateEmbeddingRecomputes ==
    (enc.op = "update_embedding" /\ enc.text # enc.new_text) =>
        /\ enc.text \notin DOMAIN cache
        /\ enc.new_text \in DOMAIN cache
        /\ enc.computed
        /\ cache[enc.new_text] = enc.embedding

----------------------------------------------------------------------------
(* The property values add_or_update_node stores *)

\* scalars of each primitive type, lists (empty, of one type, of mixed
\* types, nested, holding a map, holding null), null and a map
PropertyValues ==
    {"gravity", "1", "1.5", "True", NoneVal, DictVal} \cup DOMAIN ListItems

\* a name, optionally an id, and one value under the key "value"
CoercionProperties ==
    {Dict([id |-> i, name |-> "gravity", value |-> v]) :
        i \in CallerIds \cup {Absent}, v \in PropertyValues}

NextCoercion ==
    \E label \in Labels, properties \in CoercionProperties :
        AddOrUpdateNode(label, properties)

SpecCoercion == InitStore /\ [][NextCoercion]_vars

\* a list whose items are primitives of one type
IsHomogeneousList(value) ==
    /\ PyType(value) = "list"
    /\ \A i \in DOMAIN ListItems[value] : IsPrimitive(ListItems[value][i])
    /\ \A i, j \in DOMAIN ListItems[value] :
            PyType(ListItems[value][i]) = PyType(ListItems[value][j])

\* C20: every property value of a stored node is a primitive scalar (a JSON
\* string is one) or a homogeneous list of primitives, and a returned
\* add_or_update_node call has stored each scalar and each homogeneous
\* primitive list of its dict unchanged and every other value (map, nested
\* list, list of mixed types, null) as its JSON serialization.
C20_StoredValueShape ==
    /\ [](\A n \in nodes : \A k \in DOMAIN n.props :
            IsPrimitive(n.props[k]) \/ IsHomogeneousList(n.props[k]))
    /\ [][\A label \in Labels, properties \in CoercionProperties :
            (/\ last'.outcome = "returned"
             /\ AddOrUpdateNode(label, properties))
            => \A k \in DOMAIN properties :
                last'.ret[k] =
                    IF \/ IsPrimitive(properties[k])
                       \/ IsHomogeneousList(properties[k])
                    THEN properties[k] ELSE JsonDumps(properties[k])]_vars

----------------------------------------------------------------------------
(* The query texts of NodeManager and RelationshipManager *)

\* A query text is the sequence of the pieces of its f-string: the literal
\* pieces, and between them the values the f-string interpolates. A name
\* after $ is a parameter the database binds; it is part of the literal text.

\* node_manager.py:20-24
AddOrUpdateNodeQuery(label) ==
    <<"MERGE (n:", label, " {id: $id}) SET n += $properties RETURN n">>

\* node_manager.py:30-33
GetNodeQuery(label) == <<"MATCH (n:", label, " {id: $id}) RETURN n">>

\* node_manager.py:38-41
GetAllNodesQuery(label) == <<"MATCH (n:", label, ") RETURN n">>

\* relationship_manager.py:15-20
AddRelationshipQuery(relationship_type) ==
    <<"MATCH (a {id: $start_node_id}) MATCH (b {id: $end_node_id}) CREATE (a)-[r:",
      relationship_type, " $properties]->(b) RETURN r">>

\* execute_query(query, parameters) receives the text of an operation
Sent(op, query) == [wire EXCEPT ![op] = @ \cup {query}]

\* the relationship types the callers pass
SentRelationshipTypes == {"RELATES_TO", "CAUSES"}

\* NodeManager.add_or_update_node with the query it passes to execute_query
AddOrUpdateNodeSent(label, properties) ==
    /\ "id" \in DOMAIN properties \/ NodeUuid(IdsOf(nodes)) # ""
    /\ \E ok \in BOOLEAN :
        LET sent == PreparedProperties(properties, IdsOf(nodes))
            matched == Matched(nodes, label, sent["id"])
            after == IF ok THEN MergeSet(nodes, label, sent) ELSE nodes
        IN /\ Cardinality(after) <= MaxNodes
           /\ nodes' = after
           /\ wire' = Sent("add_or_update_node", AddOrUpdateNodeQuery(label))
           /\ last' = Call("add_or_update_node",
                           IF matched = {} THEN "created" ELSE "merged",
                           IF ok THEN "returned" ELSE "raised", EmptyDict)
           /\ fileFresh' = (fileFresh /\ after = nodes)
    /\ UNCHANGED <<gen, co, exec, procs, comparison, rels, file, dest,
                   embeddingVars, sim, communityVars>>

\* RelationshipManager.add_relationship with the query it passes
AddRelationshipSent(start_node_id, end_node_id, relationship_type) ==
    /\ RelUuid(RelIds) # ""
    /\ \E ok \in BOOLEAN :
        LET relationship_id == RelUuid(RelIds)
            created == CreatedRelationships(nodes, start_node_id, end_node_id,
                                            relationship_type, relationship_id)
            after == IF ok THEN rels \cup created ELSE rels
        IN /\ Cardinality(after) <= MaxRels
           /\ rels' = after
           /\ wire' = Sent("add_relationship",
                           AddRelationshipQuery(relationship_type))
           /\ last' = Call("add_relationship",
                           IF created = {} THEN "no_endpoint" ELSE "linked",
                           IF ok THEN "returned" ELSE "raised", EmptyDict)
    /\ UNCHANGED <<gen, co, exec, procs, comparison, nodes, file, fileFresh,
                   dest, embeddingVars, sim, communityVars>>

\* NodeManager.get_node with the query it passes
GetNodeSent(label, node_id) ==
    /\ \E ok \in BOOLEAN :
        last' = IF ok
                THEN Call("get_node", "query_ok", "returned",
                          GetNode(nodes, label, node_id))
                ELSE Call("get_node", "query_failed", "raised", EmptyDict)
    /\ wire' = Sent("get_node", GetNodeQuery(label))
    /\ UNCHANGED <<gen, co, exec, procs, comparison, nodes, rels, file,
                   fileFresh, dest, embeddingVars, sim, communityVars>>

\* NodeManager.get_all_nodes with the query it passes
GetAllNodesSent(label) ==
    /\ \E ok \in BOOLEAN :
        IF ok
        THEN \E result \in RowOrders(GetAllNodes(nodes, label)) :
                last' = Call("get_all_nodes", "query_ok", "returned", result)
        ELSE last' = Call("get_all_nodes", "query_failed", "raised",
                          EmptyDict)
    /\ wire' = Sent("get_all_nodes", GetAllNodesQuery(label))
    /\ UNCHANGED <<gen, co, exec, procs, comparison, nodes, rels, file,
                   fileFresh, dest, embeddingVars, sim, communityVars>>

NextQueryText ==
    \/ \E label \in Labels, properties \in RaceProperties :
            AddOrUpdateNodeSent(label, properties)
    \/ \E s \in EndpointIds, e \in EndpointIds, t \in SentRelationshipTypes :
            AddRelationshipSent(s, e, t)
    \/ \E label \in Labels, node_id \in EndpointIds : GetNodeSent(label, node_id)
    \/ \E label \in Labels : GetAllNodesSent(label)

SpecQueryText == InitStore /\ [][NextQueryText]_vars

\* C21: all the calls of one GraphStore operation have passed the same query
\* text to execute_query, whatever label, relationship type, ids and property
\* values they were given: those reach the database as bound parameters only
C21_QueryTextFixed ==
    \A op \in GraphStoreOperations : Cardinality(wire[op]) <= 1

----------------------------------------------------------------------------
(* ChatGPT.chat_with_ollama and its retry decorator *)

\* @retry(stop=stop_after_attempt(6),
\*        wait=wait_exponential(multiplier=1, min=4, max=10))
ChatStopAfterAttempt == 6

\* stop_after_attempt(6)
ChatStop(attempt_number) == attempt_number >= ChatStopAfterAttempt

\* generate_summary, generate_partial_answer or combine_partial_answers
\* calls llm.chat_with_ollama(system_prompt, prompt): the first attempt
\* begins. The prompts of the CommunityManager are below the 20000 words at
\* which chunk_and_summarize would make calls of its own.
ChatWithOllama(request) ==
    /\ gen.phase \in {"idle", "returned", "raised"}
    /\ gen' = [request |-> request, phase |-> "running", attempt_number |-> 1,
               attempts |-> <<>>, slept |-> <<>>, ret |-> Absent]
    /\ UNCHANGED <<wire, co, storeVars, embeddingVars, sim, communityVars,
                   exec, procs, comparison>>

\* the service answers 200 with a 'response': the attempt returns it and so
\* does the call
PostReturns(response) ==
    /\ gen.phase = "running"
    /\ gen' = [gen EXCEPT !.phase = "returned",
                          !.attempts = Append(@, response),
                          !.ret = response]
    /\ UNCHANGED <<wire, co, storeVars, embeddingVars, sim, communityVars,
                   exec, procs, comparison>>

\* the attempt raises (lines 39, 43, 46); the decorator, which names no
\* exception type, either gives up, raising RetryError to the caller, or
\* goes to sleep
PostRaises(error) ==
    /\ gen.phase = "running"
    /\ gen' = [gen EXCEPT
            !.phase = IF ChatStop(gen.attempt_number)
                      THEN "raised" ELSE "sleeping",
            !.attempts = Append(@, error),
            !.ret = IF ChatStop(gen.attempt_number)
                    THEN "RetryError" ELSE Absent]
    /\ UNCHANGED <<wire, co, storeVars, embeddingVars, sim, communityVars,
                   exec, procs, comparison>>

\* the sleep between two attempts ends and the next attempt begins
ChatSleep ==
    /\ gen.phase = "sleeping"
    /\ gen' = [gen EXCEPT
            !.phase = "running",
            !.slept = Append(@, WaitExponential(gen.attempt_number)),
            !.attempt_number = @ + 1]
    /\ UNCHANGED <<wire, co, storeVars, embeddingVars, sim, communityVars,
                   exec, procs, comparison>>

NextGeneration ==
    \/ \E request \in GenerationRequests : ChatWithOllama(request)
    \/ \E response \in Answers : PostReturns(response)
    \/ \E error \in GenerationErrors : PostRaises(error)
    \/ ChatSleep

SpecGeneration == InitRetry /\ [][NextGeneration]_vars

\* C22: a generation request of summarize_communities or query_communities
\* makes one attempt against the text-generation service: an attempt that
\* fails ends the request, its failure going to the caller, and no sleep
\* and no second attempt follow
C22_NoGenerationRetry ==
    /\ gen.attempt_number <= 1
    /\ Len(gen.attempts) <= 1
    /\ gen.slept = <<>>
    /\ (Len(gen.attempts) = 1 /\ gen.attempts[1] \in GenerationErrors)
            => gen.phase = "raised"

----------------------------------------------------------------------------
(* Claims about the community rebuild *)

\* C23: an update_knowledge or initialize call that raises leaves the
\* community assignment and the community_id -> summary map as they were
\* before the call
C23_FailedRebuildKeepsState ==
    [][(/\ comm'.op \in {"update_knowledge", "initialize"}
        /\ comm'.outcome = "raised")
            => /\ communities' = communities
               /\ community_summaries' = community_summaries]_vars


\* the communities of the current assignment
Assigned == {communities[id] : id \in DOMAIN communities}

C25_CompleteMapping ==
    (comm.op = "update_knowledge" /\ comm.node # Absent) =>
        /\ DOMAIN communities = Range(graph)
        /\ \A id \in Range(graph) : communities[id] \in 0..(Len(graph) - 1)

\* detect_communities ran on a graph of three nodes or more, and the
\* summaries that follow it failed
C25_Witness ==
    /\ comm.op = "update_knowledge"
    /\ comm.node # Absent
    /\ comm.outcome = "raised"
    /\ Len(graph) >= 3
    /\ Cardinality(DOMAIN communities) >= 3


----------------------------------------------------------------------------
(* The organizer beside the store's own operations *)

\* the store is written through add_or_update_node and through the
\* organizer's update_knowledge; initialize is the organizer's only call of
\* build_graph_from_knowledge
NextOrganizer ==
    \/ \E label \in Labels, properties \in RaceProperties :
            AddOrUpdateNode(label, properties)
    \/ \E new_knowledge \in NewKnowledge : UpdateKnowledge(new_knowledge)
    \/ Initialize

SpecOrganizer == InitCommunity /\ [][NextOrganizer]_vars

\* Built: the graph is the projection of the store, a node for every stored
\* node (no reachable store has a relationship, and no graph an edge)
Projected == Range(graph) = IdsOf(nodes)

\* C26: an initialize that returned has built the graph, assigned the
\* communities of that graph and summarized them; communities are assigned
\* only while the graph is the projection of the store; only communities
\* of the assignment have a summary
C26_PhaseOrder ==
    /\ (comm.op = "initialize" /\ comm.outcome = "returned") =>
            /\ Projected
            /\ communities = BestPartition(graph)
            /\ Summarized = Assigned
    /\ DOMAIN communities # {} => Projected
    /\ Summarized \subseteq Assigned


----------------------------------------------------------------------------
(* The embedding cache when the embedding model raises *)

\* the record of a call that the exception of model.encode ended
RaisedCall(op, text) ==
    [op |-> op, text |-> text, ret |-> <<>>, raised |-> "ModelError"]

\* encode(text), the text not cached: model.encode raises at line 63,
\* before the cache is touched
EncodeRaises(text) ==
    /\ text \notin DOMAIN cache
    /\ enc' = RaisedCall("encode", text)
    /\ UNCHANGED <<cache, disk, run, callVars, storeVars, sim, communityVars>>

\* batch_encode(texts), some text not cached: model.encode raises at
\* line 80
BatchEncodeRaises(texts) ==
    /\ {texts[i] : i \in DOMAIN texts} \ DOMAIN cache # {}
    /\ enc' = RaisedCall("batch_encode", Absent)
    /\ UNCHANGED <<cache, disk, run, callVars, storeVars, sim, communityVars>>

\* update_embedding(text, new_text): line 212 deletes the entry of text,
\* encode(new_text) finds no entry and model.encode raises; line 214, the
\* save, is not reached
UpdateEmbeddingRaises(text, new_text) ==
    LET deleted == IF text \in DOMAIN cache THEN Pop(cache, text) ELSE cache
    IN /\ new_text \notin DOMAIN deleted
       /\ cache' = deleted
       /\ disk' = disk
       /\ run' = RunAfterInvalidation(run, {text})
       /\ enc' = [op |-> "update_embedding", text |-> text, ret |-> <<>>,
                  new_text |-> new_text, raised |-> "ModelError"]
       /\ UNCHANGED <<callVars, storeVars, sim, communityVars>>

NextCacheFaults ==
    \/ \E text \in Texts : Encode(text)
    \/ \E texts \in {<<>>} \cup {<<t>> : t \in Texts}
                    \cup {<<t, u>> : t \in Texts, u \in Texts} :
            BatchEncode(texts)
    \/ \E text \in Texts, new_text \in Texts : UpdateEmbedding(text, new_text)
    \/ ClearCache
    \/ \E text \in Texts : EncodeRaises(text)
    \/ \E texts \in {<<t>> : t \in Texts} : BatchEncodeRaises(texts)
    \/ \E text \in Texts, new_text \in Texts :
            UpdateEmbeddingRaises(text, new_text)

SpecCacheFaults == InitCache /\ [][NextCacheFaults]_vars

\* the last call is one of the four and it returned
Completed ==
    /\ enc.op \in {"encode", "batch_encode", "update_embedding", "clear_cache"}
    /\ "raised" \notin DOMAIN enc

C30_FailedUpdateConsistent ==
    (enc.op = "update_embedding" /\ "raised" \in DOMAIN enc) =>
        /\ disk = cache
        /\ enc.text \in DOMAIN cache <=> enc.text \in DOMAIN disk


----------------------------------------------------------------------------
(* Claims about node identity *)

\* C29: every stored node has a non-empty id, no two stored nodes have the
\* same id, whatever their labels, and so an id given to add_relationship
\* matches at most one node and a call that links creates one relationship
C29_UniqueIds ==
    /\ \A n \in nodes : "id" \in DOMAIN n.props /\ n.props["id"] # ""
    /\ \A n, m \in nodes : n.props["id"] = m.props["id"] => n = m
    /\ \A id \in EndpointIds : Cardinality(MatchById(nodes, id)) <= 1
    /\ (last.op = "add_relationship" /\ last.case = "linked"
            /\ last.outcome = "returned") => Cardinality(rels) = 1


----------------------------------------------------------------------------
(* CommunityManager methods as coroutines of one event loop *)

(* A coroutine runs alone from one await to the next: a step of the model is
   the code between two suspensions. add_or_update_node and the requests to
   the text-generation service suspend; the EmbeddingManager is synchronous
   and does not. *)

\* the coroutines that are not inside a method
Free(c) == co[c].pc \in {"idle", "returned", "raised"}

\* list(set(self.communities.values())): small ints come out in order
Ascending(S, n) == SelectSeq([i \in 1..n |-> i - 1], LAMBDA x : x \in S)

\* lines 60-64 and 104-108: self.communities[node] for every node of
\* self.graph.nodes; a node without a community id raises KeyError
CommunityNodes(g, comms) ==
    IF Range(g) \subseteq DOMAIN comms THEN "found" ELSE "KeyError"

\* graph.add_node alone: the communities are left for a later step
AddNodeOnly(g, id) == [graph |-> AddNode(g, id), communities |-> communities]

\* lines 230-233: graph.add_node, then detect_communities, with no await
\* between them
AddNodeAndDetect(g, id) ==
    [graph |-> AddNode(g, id), communities |-> BestPartition(AddNode(g, id))]

\* the head of a loop over the communities of todo: past the last one the
\* loop is left (to the combining request, or to the return); before any
\* other the members are looked up and the coroutine suspends in the
\* request for that community
LoopHead(rec, todo, g, comms, awaiting) ==
    IF todo = <<>>
    THEN [rec EXCEPT !.todo = <<>>,
                     !.pc = IF awaiting = "partial" THEN "combine"
                            ELSE "returned"]
    ELSE IF CommunityNodes(g, comms) = "KeyError"
    THEN [rec EXCEPT !.todo = todo, !.pc = "raised", !.lookup = "KeyError"]
    ELSE [rec EXCEPT !.todo = todo, !.pc = awaiting, !.lookup = "found"]

CoroutineFrame ==
    UNCHANGED <<wire, gen, exec, procs, comparison, rels, file, dest, last,
                run, enc, sim, seen, comm>>

\* update_knowledge is called: the coroutine suspends in add_or_update_node
UpdateKnowledgeCalled(c, new_knowledge) ==
    /\ Free(c)
    /\ co' = [co EXCEPT ![c] = [NoCoroutine EXCEPT
                !.op = "update_knowledge", !.pc = "upsert",
                !.new_knowledge = new_knowledge]]
    /\ UNCHANGED <<nodes, fileFresh, cache, disk, graph, communities,
                   community_summaries>>
    /\ CoroutineFrame

\* add_or_update_node returns, having written the id into the dict it was
\* given, or raises; lines 230-236 and the first iteration of
\* summarize_communities up to its request follow at once
UpsertReturns(c) ==
    /\ co[c].pc = "upsert"
    /\ NodeUuid(IdsOf(nodes)) # ""
    /\ \E ok \in BOOLEAN :
        IF ~ok
        THEN /\ co' = [co EXCEPT ![c].pc = "raised"]
             /\ UNCHANGED <<nodes, fileFresh, graph, communities>>
        ELSE LET sent == PreparedProperties(co[c].new_knowledge, IdsOf(nodes))
                 r == AddNodeAndDetect(graph, sent["id"])
                 merged == MergeSet(nodes, co[c].new_knowledge["label"], sent)
             IN /\ Cardinality(merged) <= MaxNodes
                /\ nodes' = merged
                /\ fileFresh' = (fileFresh /\ nodes' = nodes)
                /\ graph' = r.graph
                /\ communities' = r.communities
                /\ co' = [co EXCEPT ![c] =
                     IF sent["id"] \notin DOMAIN r.communities
                     THEN [@ EXCEPT !.new_knowledge = sent, !.pc = "raised",
                                    !.lookup = "KeyError"]
                     ELSE LoopHead([@ EXCEPT !.new_knowledge = sent],
                                   Ascending(Range(r.communities),
                                             Len(r.graph)),
                                   r.graph, r.communities, "summary")]
    /\ UNCHANGED <<cache, disk, community_summaries>>
    /\ CoroutineFrame

\* summarize_communities is called on its own
SummarizeCommunitiesCalled(c) ==
    /\ Free(c)
    /\ co' = [co EXCEPT ![c] =
                LoopHead([NoCoroutine EXCEPT !.op = "summarize_communities"],
                         Ascending(Range(communities), Len(graph)),
                         graph, communities, "summary")]
    /\ UNCHANGED <<nodes, fileFresh, cache, disk, graph, communities,
                   community_summaries>>
    /\ CoroutineFrame

\* generate_summary returns and line 71 stores the summary, or it raises;
\* the next iteration follows at once
SummaryReturns(c) ==
    /\ co[c].pc = "summary"
    /\ \E ok \in BOOLEAN :
        IF ~ok
        THEN /\ co' = [co EXCEPT ![c].pc = "raised"]
             /\ UNCHANGED community_summaries
        ELSE \E summary \in SummaryTexts :
             /\ community_summaries' =
                    SetItem(community_summaries, Head(co[c].todo), summary)
             /\ co' = [co EXCEPT ![c] =
                        LoopHead(@, Tail(co[c].todo), graph, communities,
                                 "summary")]
    /\ UNCHANGED <<nodes, fileFresh, cache, disk, graph, communities>>
    /\ CoroutineFrame

\* query_communities is called: lines 87-98 select the communities with the
\* synchronous EmbeddingManager, then the first iteration up to its request
QueryCommunitiesCalled(c, query) ==
    /\ Free(c)
    /\ \E fresh \in [EncodedTexts(query) \ DOMAIN cache -> Vectors] :
        LET after == CacheAfter(cache, fresh, EncodedTexts(query))
            selected == SelectCommunities(query, TRUE, cache, fresh)
        IN /\ cache' = after
           /\ disk' = IF after # cache THEN after ELSE disk
           /\ co' = [co EXCEPT ![c] =
                LoopHead([NoCoroutine EXCEPT !.op = "query_communities"],
                         selected, graph, communities, "partial")]
    /\ UNCHANGED <<nodes, fileFresh, graph, communities, community_summaries>>
    /\ CoroutineFrame

\* generate_partial_answer returns or raises; the next iteration, or the
\* request of combine_partial_answers, follows at once
PartialAnswerReturns(c) ==
    /\ co[c].pc = "partial"
    /\ \E ok \in BOOLEAN :
        co' = [co EXCEPT ![c] =
                IF ok THEN LoopHead(@, Tail(co[c].todo), graph, communities,
                                    "partial")
                ELSE [@ EXCEPT !.pc = "raised"]]
    /\ UNCHANGED <<nodes, fileFresh, cache, disk, graph, communities,
                   community_summaries>>
    /\ CoroutineFrame

\* combine_partial_answers returns or raises, and so does query_communities
CombinedAnswerReturns(c) ==
    /\ co[c].pc = "combine"
    /\ \E ok \in BOOLEAN :
        co' = [co EXCEPT ![c].pc = IF ok THEN "returned" ELSE "raised"]
    /\ UNCHANGED <<nodes, fileFresh, cache, disk, graph, communities,
                   community_summaries>>
    /\ CoroutineFrame

\* initialize or build_graph_from_knowledge is called: line 36 raises
\* AttributeError (KnowledgeGraph has no get_all_knowledge) before the
\* coroutine suspends or adds a node
BuildGraphCalled(c, op) ==
    /\ Free(c)
    /\ co' = [co EXCEPT ![c] = [NoCoroutine EXCEPT !.op = op,
                                                   !.pc = "raised"]]
    /\ UNCHANGED <<nodes, fileFresh, cache, disk, graph, communities,
                   community_summaries>>
    /\ CoroutineFrame

NextCoroutines ==
    \/ \E c \in Coroutines, new_knowledge \in NewKnowledge :
            UpdateKnowledgeCalled(c, new_knowledge)
    \/ \E c \in Coroutines : UpsertReturns(c)
    \/ \E c \in Coroutines : SummarizeCommunitiesCalled(c)
    \/ \E c \in Coroutines : SummaryReturns(c)
    \/ \E c \in Coroutines, query \in Queries : QueryCommunitiesCalled(c, query)
    \/ \E c \in Coroutines : PartialAnswerReturns(c)
    \/ \E c \in Coroutines : CombinedAnswerReturns(c)
    \/ \E c \in Coroutines,
          op \in {"initialize", "build_graph_from_knowledge"} :
            BuildGraphCalled(c, op)

SpecCoroutines == InitCommunity /\ [][NextCoroutines]_vars

====
